---- MODULE Spec2Model ----
(***************************************************************************)
(* A model of the BM25 search engine and design-system generator of       *)
(* niche-rating-generator (src/unnamed/part_000).                          *)
(*                                                                         *)
(* Strings are sequences of one-character strings.  JavaScript numbers    *)
(* are modelled as records [nan, v]: v is the value in units of 1/Scale   *)
(* (rational arithmetic, rounded down once per BM25 term), and nan marks  *)
(* the IEEE value NaN, which the code produces when a token names a       *)
(* property every plain object inherits (see ProtoKeys).                  *)
(***************************************************************************)
EXTENDS Integers, Sequences, FiniteSets, TLC

VARIABLES
  text,         \* tokenize: the argument of the last call
  tokens,       \* tokenize: the value it returned
  bm,           \* one BM25 instance: the fields set by the constructor and by fit
  fitted,       \* the documents passed to the most recent fit of bm ("none" before)
  query,        \* score: the argument of the last call
  ranked,       \* score: the value it returned
  op,           \* the operation that ran last
  termIn,       \* inputs of one BM25 term (tf, docLen, corpus statistics)
  termOut,      \* the term's value for tf and for tf + 1
  disk,         \* the design-data files as deployed (file name -> rows)
  designDataCache,  \* file name -> rows, for the files loaded so far
  call,         \* searchDesignCSV: the arguments of the last call
  found,        \* searchDesignCSV: the value it returned, with the ranking it used
  reasonIn,     \* applyReasoning: the arguments of the call (category, rule table)
  reasonOut,    \* applyReasoning: the rule findReasoningRule gave it, and its result
  selectIn,     \* selectBestMatch: the arguments of the call
  selectOut,    \* selectBestMatch: the value it returned
  loadLog,      \* loadDesignData: the calls so far (file, whether it was read from disk, rows returned)
  ncalls,       \* the number of calls made on the design data so far
  genIn,        \* generateDesignSystem: the arguments of the last call
  genOut,       \* generateDesignSystem: the searches it made and the value it returned
  prompt,       \* the lines formatDesignSystemForPrompt returned
  project,      \* the record of the project in data/projects.json
  metaFile,     \* the file data/projects/<id>.meta.json
  htmlFile,     \* the file data/projects/<id>.html
  runningPipelines,\* the run whose promise is registered for the project, 0 without entry
  currentRun,   \* the variable currentRun of pipeline.js
  runs,         \* the executions of runPipeline, by number
  emitted,      \* the events the last step passed to emitSSE, in order
  request,      \* the arguments of the last request
  res,          \* the status of the last response
  retry,        \* withRetry: one call of it, the calls of fn it made and how it ended
  web,          \* step_8_web: the ratings, the queue, the workers and the downloads
  fill,         \* step_fill: the template, what buildFillPrompt saved, the model's HTML and the HTML written
  sse           \* the SSE registry sseClients and the connections made

vars == <<text, tokens, bm, fitted, query, ranked, op, termIn, termOut,
          disk, designDataCache, call, found, reasonIn, reasonOut, selectIn, selectOut,
          loadLog, ncalls, genIn, genOut,
          prompt,
          project, metaFile, htmlFile, runningPipelines, currentRun, runs, emitted, request, res,
          retry,
          web,
          fill,
          sse>>

reasonVars == <<reasonIn, reasonOut>>
selectVars == <<selectIn, selectOut>>
designVars == <<loadLog, ncalls, genIn, genOut>>
formatVars == <<prompt>>
pipelineVars == <<project, metaFile, htmlFile, runningPipelines, currentRun, runs, emitted, request, res>>
retryVars == <<retry>>
webVars == <<web>>
fillVars == <<fill>>
sseVars == <<sse>>

----------------------------------------------------------------------------
(* Bounds of the model *)

MaxPieces == 4       \* most pieces in a text given to tokenize on its own
MaxDocs == 3         \* most documents in one corpus
MaxTf == 4           \* largest term frequency tried for one BM25 term
MaxRows == 3         \* most rows in one design-data file
MaxResults == 3      \* largest maxResults passed to searchDesignCSV
MaxRules == 2        \* most rules in one reasoning table
MaxPriorityPieces == 4   \* most pieces in a style-priority text given on its own
MaxCandidates == 2   \* most results given to selectBestMatch
MaxCalls == 3        \* most calls of search and generateDesignSystem in one process
MaxRuns == 2         \* most executions of runPipeline for the project
MaxRatings == 1      \* most ratings extracted by step_7
MaxRetries == 3      \* largest retries given to withRetry
MaxSites == 6        \* most ratings given to step_8_web
MaxContent == 2      \* most pieces in the content of a protected block
MaxConns == 2        \* most SSE connections made
MaxEvents == 2       \* most calls of emitSSE
MaxDesignRows == 4   \* most rows in a file of a deployment given to generateDesignSystem
MaxPriorities == 3   \* most priority keywords given to selectBestMatch

Scale == 10 * 1000   \* model numbers are counted in units of 1/Scale

----------------------------------------------------------------------------
(* Characters *)

UpperCase == <<"A","B","C","D","E","F","G","H","I","J","K","L","M",
               "N","O","P","Q","R","S","T","U","V","W","X","Y","Z">>
LowerCase == <<"a","b","c","d","e","f","g","h","i","j","k","l","m",
               "n","o","p","q","r","s","t","u","v","w","x","y","z">>
Digits == {"0","1","2","3","4","5","6","7","8","9"}

Letters == {UpperCase[i] : i \in 1..26} \cup {LowerCase[i] : i \in 1..26}

\* /\w/: ASCII letters, digits and the underscore
IsWordChar(c) == c \in Letters \/ c \in Digits \/ c = "_"

\* /\s/ (the white space the model's texts use)
IsSpaceChar(c) == c \in {" ", "\t", "\n"}

LowerOf == [c \in {UpperCase[i] : i \in 1..26} |->
              LowerCase[CHOOSE i \in 1..26 : c = UpperCase[i]]]

UpperOf == [c \in {LowerCase[i] : i \in 1..26} |->
              UpperCase[CHOOSE i \in 1..26 : c = LowerCase[i]]]

\* String.prototype.toUpperCase
toUpperCase(s) == [i \in 1..Len(s) |-> IF s[i] \in DOMAIN UpperOf THEN UpperOf[s[i]] ELSE s[i]]

\* String.prototype.toLowerCase, one character
ToLowerChar(c) == IF c \in DOMAIN LowerOf THEN LowerOf[c] ELSE c

toLowerCase(s) == [i \in 1..Len(s) |-> ToLowerChar(s[i])]

\* .replace(/[^\w\s]/g, ' ')
ReplaceNonWord(s) ==
  [i \in 1..Len(s) |-> IF IsWordChar(s[i]) \/ IsSpaceChar(s[i]) THEN s[i] ELSE " "]

\* .split(/\s+/): the pieces between maximal runs of white space; a run at
\* either end of the string leaves an empty piece there, and "" gives <<"">>.
RECURSIVE SplitFrom(_, _, _, _)
SplitFrom(s, i, cur, acc) ==
  IF i > Len(s) THEN Append(acc, cur)
  ELSE IF IsSpaceChar(s[i])
    THEN IF i > 1 /\ IsSpaceChar(s[i-1])
           THEN SplitFrom(s, i + 1, cur, acc)
           ELSE SplitFrom(s, i + 1, <<>>, Append(acc, cur))
    ELSE SplitFrom(s, i + 1, Append(cur, s[i]), acc)

SplitWhitespace(s) == SplitFrom(s, 1, <<>>, <<>>)

KeepToken_short(w) == Len(w) >= 2

\* .filter(w => w.length > 2)
KeepToken(w) == Len(w) > 2

\* BM25.tokenize
Tokenize(s) ==
  SelectSeq(SplitWhitespace(ReplaceNonWord(toLowerCase(s))), KeepToken)

\* Array.prototype.join(' ') over strings
RECURSIVE JoinSpace(_)
JoinSpace(parts) ==
  IF Len(parts) = 0 THEN <<>>
  ELSE IF Len(parts) = 1 THEN parts[1]
  ELSE parts[1] \o <<" ">> \o JoinSpace(Tail(parts))

----------------------------------------------------------------------------
(* Numbers *)

Num(v) == [nan |-> FALSE, v |-> v]
NaN == [nan |-> TRUE, v |-> 0]

\* a + b, a > b and a < b on JavaScript numbers: NaN absorbs, and compares false
Plus(a, b) == IF a.nan \/ b.nan THEN NaN ELSE Num(a.v + b.v)
Gt(a, b) == ~a.nan /\ ~b.nan /\ a.v > b.v
Lt(a, b) == ~a.nan /\ ~b.nan /\ a.v < b.v

\* Scale * (z + z^3/3 + z^5/5 + ...) for z = d/s, 0 <= d < s; pw is Scale * z^k
RECURSIVE AtanhSeries(_, _, _, _)
AtanhSeries(pw, k, d, s) ==
  IF pw = 0 THEN 0
  ELSE (pw \div k) + AtanhSeries((((pw * d) \div s) * d) \div s, k + 2, d, s)

\* Math.log(p / q) in units of 1/Scale, for integers p, q > 0:
\* ln(p/q) = 2 atanh((p - q)/(p + q))
Log(p, q) ==
  IF p >= q THEN 2 * AtanhSeries((Scale * (p - q)) \div (p + q), 1, p - q, p + q)
  ELSE 0 - 2 * AtanhSeries((Scale * (q - p)) \div (p + q), 1, q - p, p + q)

Range(f) == {f[i] : i \in DOMAIN f}

----------------------------------------------------------------------------
(* Inputs *)

SeqsUpTo(S, n) == UNION {[1..k -> S] : k \in 0..n}

\* the pieces a text given to tokenize on its own is made of: letters in both
\* cases, a digit, the underscore, two kinds of white space, a punctuation mark
TextPieces ==
  {<<"a","B">>, <<"x","y","Z">>, <<"7">>, <<"_">>, <<" ">>, <<"\t">>, <<"-">>}

RECURSIVE Concat(_)
Concat(parts) == IF Len(parts) = 0 THEN <<>> ELSE Head(parts) \o Concat(Tail(parts))

TextPool == {Concat(ps) : ps \in SeqsUpTo(TextPieces, MaxPieces)}

\* documents: "red dashboard app", "Dashboard tool dashboard",
\* "to a-b" (no token survives), "constructor blog"
DocPool ==
  {<<"r","e","d"," ","d","a","s","h","b","o","a","r","d"," ","a","p","p">>,
   <<"D","a","s","h","b","o","a","r","d"," ","t","o","o","l"," ","d","a","s","h","b","o","a","r","d">>,
   <<"t","o"," ","a","-","b">>,
   <<"c","o","n","s","t","r","u","c","t","o","r"," ","b","l","o","g">>}

\* queries: "dashboard", "App, blog!", "zzz", "constructor app", ""
QueryPool ==
  {<<"d","a","s","h","b","o","a","r","d">>,
   <<"A","p","p",","," ","b","l","o","g","!">>,
   <<"z","z","z">>,
   <<"c","o","n","s","t","r","u","c","t","o","r"," ","a","p","p">>,
   <<>>}

----------------------------------------------------------------------------
(* class BM25 *)

\* The lower-cased tokens that name a property every plain object ({})
\* inherits from Object.prototype.  this.idf, this.docFreqs and termFreqs are
\* plain objects, so obj[token] is a function, not undefined, for such a token.
Constructor == <<"c","o","n","s","t","r","u","c","t","o","r">>
ProtoKeys == {Constructor}

EmptyMap == [w \in {} |-> 0]

\* this.tokenize(d) for a document d (the pool's documents are tokenized once)
TokenizedPool == [d \in DocPool |-> Tokenize(d)]
TokenizeDoc(d) == IF d \in DOMAIN TokenizedPool THEN TokenizedPool[d] ELSE Tokenize(d)

\* constructor(k1 = 1.5, b = 0.75); k1, b and avgdl are kept as fractions
NewBM25 ==
  [k1 |-> [n |-> 3, d |-> 2], b |-> [n |-> 3, d |-> 4],
   corpus |-> <<>>, docLengths |-> <<>>, avgdl |-> [sum |-> 0, n |-> 1],
   idf |-> EmptyMap, docFreqs |-> EmptyMap, N |-> 0]

\* this.docLengths.reduce((a, b) => a + b, 0)
RECURSIVE SumSeq(_)
SumSeq(s) == IF Len(s) = 0 THEN 0 ELSE Head(s) + SumSeq(Tail(s))

\* fit, the docFreqs loop: the number of documents that hold the word.  For a
\* word of ProtoKeys (this.docFreqs[word] || 0) is the inherited function, and
\* adding 1 to it gives a string: the function's source text followed by "1",
\* one more "1" for every further document (str, with n the number of "1"s).
DocFreqs(corpus) ==
  [w \in UNION {Range(corpus[i]) : i \in DOMAIN corpus} |->
     [str |-> w \in ProtoKeys,
      n |-> Cardinality({i \in DOMAIN corpus : w \in Range(corpus[i])})]]

\* Math.log((this.N - freq + 0.5) / (freq + 0.5) + 1); numerator and
\* denominator are doubled to stay in the integers.  A string freq gives NaN.
Idf(N, freq) ==
  IF freq.str THEN NaN
  ELSE Num(Log((2 * (N - freq.n) + 1) + (2 * freq.n + 1), 2 * freq.n + 1))

Fit_noreset(self, documents) ==
  LET corpus == [i \in 1..Len(documents) |-> TokenizeDoc(documents[i])]
      N == Len(corpus)
      docLengths == [i \in 1..N |-> Len(corpus[i])]
      docFreqs == DocFreqs(corpus)
  IN IF N = 0 THEN [self EXCEPT !.N = 0]
     ELSE [self EXCEPT !.corpus = corpus, !.N = N, !.docLengths = docLengths,
                       !.avgdl = [sum |-> SumSeq(docLengths), n |-> N],
                       !.docFreqs = docFreqs,
                       !.idf = [w \in DOMAIN docFreqs |-> Idf(N, docFreqs[w])]]

\* fit(documents)
Fit(self, documents) ==
  LET corpus == [i \in 1..Len(documents) |-> TokenizeDoc(documents[i])]
      N == Len(corpus)
      docLengths == [i \in 1..N |-> Len(corpus[i])]
      docFreqs == DocFreqs(corpus)
  IN IF N = 0 THEN [self EXCEPT !.corpus = corpus, !.N = N]
     ELSE [self EXCEPT !.corpus = corpus, !.N = N, !.docLengths = docLengths,
                       !.avgdl = [sum |-> SumSeq(docLengths), n |-> N],
                       !.docFreqs = docFreqs,
                       !.idf = [w \in DOMAIN docFreqs |-> Idf(N, docFreqs[w])]]

\* termFreqs[token] for a token that is not in ProtoKeys
TermFreq(doc, token) == Cardinality({j \in DOMAIN doc : doc[j] = token})

Term_inverse(idfVal, tf, docLen, avgdl, k1, b) ==
  LET num == (k1.n + k1.d) * b.d * avgdl.sum
      den == tf * k1.d * b.d * avgdl.sum
               + k1.n * ((b.d - b.n) * avgdl.sum + b.n * docLen * avgdl.n)
  IN (idfVal * num) \div den

Term_inverted_ratio(idfVal, tf, docLen, avgdl, k1, b) ==
  LET num == tf * (k1.n + k1.d) * b.d * docLen * avgdl.n
      den == tf * k1.d * b.d * docLen * avgdl.n
               + k1.n * ((b.d - b.n) * docLen * avgdl.n + b.n * avgdl.sum)
  IN (idfVal * num) \div den

\* idfVal * num / den with num = tf * (k1 + 1) and
\* den = tf + k1 * (1 - b + b * docLen / avgdl); num and den are both
\* multiplied by k1.d * b.d * avgdl.sum to stay in the integers.
Term(idfVal, tf, docLen, avgdl, k1, b) ==
  LET num == tf * (k1.n + k1.d) * b.d * avgdl.sum
      den == tf * k1.d * b.d * avgdl.sum
               + k1.n * ((b.d - b.n) * avgdl.sum + b.n * docLen * avgdl.n)
  IN (idfVal * num) \div den

\* this.idf[token] !== undefined: an own entry, or an inherited property
HasIdf(self, token) == token \in DOMAIN self.idf \/ token \in ProtoKeys

\* score, the loop over queryTokens for document idx.  For a token of ProtoKeys
\* termFreqs[token] is a function or a string, so tf * (k1 + 1) is NaN.
RECURSIVE DocScore(_, _, _)
DocScore(self, idx, queryTokens) ==
  IF Len(queryTokens) = 0 THEN Num(0)
  ELSE
    LET token == Head(queryTokens)
        rest == DocScore(self, idx, Tail(queryTokens))
    IN IF ~HasIdf(self, token) THEN rest
       ELSE IF token \in ProtoKeys \/ self.idf[token].nan THEN NaN
       ELSE Plus(Num(Term(self.idf[token].v,
                          TermFreq(self.corpus[idx], token),
                          self.docLengths[idx], self.avgdl, self.k1, self.b)),
                 rest)

Before_asc(a, b) == Lt(a, b)

\* the comparator (a, b) => b[1] - a[1] is negative: a sorts before b.
\* (A NaN difference counts as 0: the two entries keep their order.)
Before(a, b) == Gt(a, b)

\* scores.sort(...): a stable sort; x goes after every entry it does not precede
RECURSIVE Insert(_, _)
Insert(sorted, x) ==
  IF Len(sorted) = 0 THEN <<x>>
  ELSE IF Before(x[2], Head(sorted)[2]) THEN <<x>> \o sorted
  ELSE <<Head(sorted)>> \o Insert(Tail(sorted), x)

RECURSIVE Sort(_)
Sort(s) == IF Len(s) = 0 THEN <<>> ELSE Insert(Sort(SubSeq(s, 1, Len(s) - 1)), s[Len(s)])

Score_skiplast(self, q) ==
  LET queryTokens == Tokenize(q)
  IN Sort([idx \in 1..(Len(self.corpus) - 1) |->
             <<idx - 1, DocScore(self, idx, queryTokens)>>])

\* score(query): entries <<idx, score>>, idx counted from 0 as in the code
Score(self, q) ==
  LET queryTokens == Tokenize(q)
  IN Sort([idx \in 1..Len(self.corpus) |-> <<idx - 1, DocScore(self, idx, queryTokens)>>])

----------------------------------------------------------------------------
(* Design data *)

\* DESIGN_CSV_CONFIG
DESIGN_CSV_CONFIG ==
  [style |->
     [file |-> "styles.json",
      searchCols |-> <<"Style Category", "Keywords", "Best For", "Type">>,
      outputCols |-> <<"Style Category", "Type", "Keywords", "Primary Colors",
                       "Effects & Animation", "Best For", "Performance", "Accessibility">>],
   color |->
     [file |-> "colors.json",
      searchCols |-> <<"Product Type", "Keywords", "Notes">>,
      outputCols |-> <<"Product Type", "Keywords", "Primary (Hex)", "Secondary (Hex)",
                       "CTA (Hex)", "Background (Hex)", "Text (Hex)", "Notes">>],
   landing |->
     [file |-> "landing.json",
      searchCols |-> <<"Pattern Name", "Keywords", "Conversion Optimization", "Section Order">>,
      outputCols |-> <<"Pattern Name", "Keywords", "Section Order", "Primary CTA Placement",
                       "Color Strategy", "Conversion Optimization">>],
   product |->
     [file |-> "products.json",
      searchCols |-> <<"Product Type", "Keywords", "Primary Style Recommendation",
                       "Key Considerations">>,
      outputCols |-> <<"Product Type", "Keywords", "Primary Style Recommendation",
                       "Color Palette Focus">>],
   typography |->
     [file |-> "typography.json",
      searchCols |-> <<"Font Pairing Name", "Category", "Mood/Style Keywords", "Best For",
                       "Heading Font", "Body Font">>,
      outputCols |-> <<"Font Pairing Name", "Heading Font", "Body Font", "Mood/Style Keywords",
                       "Best For", "Google Fonts URL", "CSS Import">>]]

Files == {DESIGN_CSV_CONFIG[d].file : d \in DOMAIN DESIGN_CSV_CONFIG}

\* rows of a design-data file: column name -> text; a row need not have every
\* column, and a column may be empty
RowPool ==
  {("Style Category" :> <<"D","a","s","h","b","o","a","r","d">> @@
     "Keywords" :> <<"d","a","s","h","b","o","a","r","d"," ","a","p","p">> @@
     "Type" :> <<>> @@
     "Product Type" :> <<"S","a","a","S"," ","a","p","p">> @@
     "Pattern Name" :> <<"H","e","r","o">> @@
     "Font Pairing Name" :> <<"B","l","o","g"," ","s","e","r","i","f">> @@
     "Primary (Hex)" :> <<"#","2","5","6","3","E","B">>),
   ("Style Category" :> <<"F","l","a","t"," ","D","e","s","i","g","n">> @@
     "Keywords" :> <<"b","l","o","g">> @@
     "Product Type" :> <<"B","l","o","g">> @@
     "Notes" :> <<"d","a","s","h","b","o","a","r","d">> @@
     "Category" :> <<"a","p","p">> @@
     "Heading Font" :> <<"I","n","t","e","r">> @@
     "Section Order" :> <<"H","e","r","o"," ",">"," ","C","T","A">>),
   ("Keywords" :> <<"t","o"," ","a","-","b">> @@
     "Best For" :> <<"A","p","p"," ","d","a","s","h","b","o","a","r","d"," ","c","o","n","s","t","r","u","c","t","o","r">> @@
     "Pattern Name" :> <<"d","a","s","h","b","o","a","r","d"," ","D","a","s","h","b","o","a","r","d">> @@
     "Body Font" :> <<"I","n","t","e","r">>)}

\* a deployment: the same rows in every file
DiskPool == {[f \in Files |-> rows] : rows \in SeqsUpTo(RowPool, MaxRows)}

\* DESIGN_CSV_CONFIG is an object literal: a name it does not define itself
\* is still found on it when Object.prototype defines it
InheritedNames == {"constructor"}

\* the domain names given to searchDesignCSV; "icons" and "constructor" are
\* not configured
DomainPool == DOMAIN DESIGN_CSV_CONFIG \cup {"icons"} \cup InheritedNames

LoadDesignData_uncached(cache, filename) ==
  [data |-> disk[filename], read |-> TRUE,
   cache |-> [f \in DOMAIN cache \cup {filename} |->
                IF f = filename THEN disk[filename] ELSE cache[f]]]

\* loadDesignData(filename): the cached rows, or the file's rows, then cached
\* (an empty array is truthy: a file without rows is cached too); read tells
\* whether fs.readFileSync was called
LoadDesignData(cache, filename) ==
  IF filename \in DOMAIN cache
    THEN [data |-> cache[filename], read |-> FALSE, cache |-> cache]
    ELSE [data |-> disk[filename], read |-> TRUE,
          cache |-> [f \in DOMAIN cache \cup {filename} |->
                       IF f = filename THEN disk[filename] ELSE cache[f]]]

\* one call of loadDesignData, as kept in loadLog
LoadEvent(filename, loaded) ==
  [file |-> filename, read |-> loaded.read, data |-> loaded.data]

\* row[col] || ''
Field(row, col) == IF col \in DOMAIN row THEN row[col] ELSE <<>>

\* data.map(row => config.searchCols.map(col => row[col] || '').join(' '))
Documents(config, data) ==
  [i \in 1..Len(data) |->
     JoinSpace([c \in 1..Len(config.searchCols) |-> Field(data[i], config.searchCols[c])])]

\* ranked.slice(0, maxResults), for maxResults >= 0
Slice(seq, maxResults) ==
  SubSeq(seq, 1, IF maxResults < Len(seq) THEN maxResults ELSE Len(seq))

IsHit_nonnegative(entry) == ~entry[2].nan /\ entry[2].v >= 0

\* .filter(([, s]) => s > 0)
IsHit(entry) == Gt(entry[2], Num(0))

Project_defined(config, row) ==
  [col \in Range(config.outputCols) \cap DOMAIN row |-> row[col]]

\* config.outputCols.forEach(col => { if (row[col]) result[col] = row[col]; })
Project(config, row) ==
  [col \in {c \in Range(config.outputCols) : Field(row, c) # <<>>} |-> row[col]]

\* searchDesignCSV(domain, query, maxResults), from the rows loaded for it:
\* the ranking, the records returned, and the index of the row each one
\* comes from
SearchData(config, data, q, maxResults) ==
  LET ranking == Score(Fit(NewBM25, Documents(config, data)), q)
      hits == SelectSeq(Slice(ranking, maxResults), IsHit)
  IN [results |-> [k \in 1..Len(hits) |-> Project(config, data[hits[k][1] + 1])],
      from |-> [k \in 1..Len(hits) |-> hits[k][1]],
      ranked |-> ranking,
      threw |-> FALSE]

\* what a search returns when it has nothing to rank
NoFound == [results |-> <<>>, from |-> <<>>, ranked |-> <<>>, threw |-> FALSE]

----------------------------------------------------------------------------
(* Reasoning rules *)

\* a.includes(b)
Includes(a, b) ==
  \E i \in 0..(Len(a) - Len(b)) : SubSeq(a, i + 1, i + Len(b)) = b

\* .replace(/\//g, ' ').replace(/-/g, ' ')
ReplaceSlashDash(s) == [i \in 1..Len(s) |-> IF s[i] \in {"/", "-"} THEN " " ELSE s[i]]

\* (rule.UI_Category || '').toLowerCase()
UiCat(rule) == toLowerCase(Field(rule, "UI_Category"))

ExactMatch_verbatim(rule, catLower) == Field(rule, "UI_Category") = catLower

\* (rule.UI_Category || '').toLowerCase() === catLower
ExactMatch(rule, catLower) == UiCat(rule) = catLower

\* uiCat.includes(catLower) || catLower.includes(uiCat)
SubstringMatch(rule, catLower) ==
  Includes(UiCat(rule), catLower) \/ Includes(catLower, UiCat(rule))

Keywords_slashdash(uiCat) ==
  LET RECURSIVE Cut(_, _, _)
      Cut(i, cur, acc) ==
        IF i > Len(uiCat) THEN Append(acc, cur)
        ELSE IF uiCat[i] \in {"/", "-"} THEN Cut(i + 1, <<>>, Append(acc, cur))
        ELSE Cut(i + 1, Append(cur, uiCat[i]), acc)
  IN Cut(1, <<>>, <<>>)

\* uiCat.replace(/\//g, ' ').replace(/-/g, ' ').split(/\s+/)
Keywords(uiCat) == SplitWhitespace(ReplaceSlashDash(uiCat))

\* keywords.some(kw => kw && catLower.includes(kw))
KeywordMatch(rule, catLower) ==
  \E k \in DOMAIN Keywords(UiCat(rule)) :
    LET kw == Keywords(UiCat(rule))[k] IN kw # <<>> /\ Includes(catLower, kw)

\* for (const rule of reasoningData) { if (...) return rule; }: of the
\* positions (from 1) of the rules that pass the test the first one, 0 when
\* the loop ends
FirstRule(hits) ==
  IF hits = {} THEN 0 ELSE CHOOSE i \in hits : \A j \in hits : i <= j

FindReasoningRule_onepass(category, reasoningData) ==
  LET catLower == toLowerCase(category)
  IN FirstRule({i \in DOMAIN reasoningData :
                  \/ ExactMatch(reasoningData[i], catLower)
                  \/ SubstringMatch(reasoningData[i], catLower)
                  \/ KeywordMatch(reasoningData[i], catLower)})

\* findReasoningRule(category, reasoningData): the position (from 1) of the
\* rule returned, 0 for null
FindReasoningRule(category, reasoningData) ==
  LET catLower == toLowerCase(category)
      exact == FirstRule({i \in DOMAIN reasoningData :
                            ExactMatch(reasoningData[i], catLower)})
      substring == FirstRule({i \in DOMAIN reasoningData :
                                SubstringMatch(reasoningData[i], catLower)})
      keyword == FirstRule({i \in DOMAIN reasoningData :
                              KeywordMatch(reasoningData[i], catLower)})
  IN IF exact # 0 THEN exact
     ELSE IF substring # 0 THEN substring
     ELSE keyword

\* .split('+'): the pieces between the '+' characters, empty ones included
SplitPlus(s) ==
  LET RECURSIVE Cut(_, _, _)
      Cut(i, cur, acc) ==
        IF i > Len(s) THEN Append(acc, cur)
        ELSE IF s[i] = "+" THEN Cut(i + 1, <<>>, Append(acc, cur))
        ELSE Cut(i + 1, Append(cur, s[i]), acc)
  IN Cut(1, <<>>, <<>>)

\* s.trim()
RECURSIVE TrimStart(_)
TrimStart(s) == IF Len(s) > 0 /\ IsSpaceChar(s[1]) THEN TrimStart(Tail(s)) ELSE s
RECURSIVE TrimEnd(_)
TrimEnd(s) ==
  IF Len(s) > 0 /\ IsSpaceChar(s[Len(s)]) THEN TrimEnd(SubSeq(s, 1, Len(s) - 1)) ELSE s
Trim(s) == TrimEnd(TrimStart(s))

StylePriority_untrimmed(rule) ==
  SelectSeq(SplitPlus(Field(rule, "Style_Priority")), LAMBDA part : part # <<>>)

\* (rule.Style_Priority || '').split('+').map(s => s.trim()).filter(Boolean)
StylePriority(rule) ==
  LET parts == SplitPlus(Field(rule, "Style_Priority"))
  IN SelectSeq([k \in DOMAIN parts |-> Trim(parts[k])], LAMBDA part : part # <<>>)

\* the values JSON.parse gives here: an object with its members, or null
EmptyObject == [type |-> "object", members |-> EmptyMap]
Null == [type |-> "null", members |-> EmptyMap]

\* JSON.parse(src) for the texts of the grammar  null | {} | {"k":d}  (k a
\* letter, d a digit, white space allowed around the tokens) and for texts
\* that are no JSON because they do not end the object they begin or are bare
\* words: the value, or that it throws a SyntaxError
JSONParse(src) ==
  LET t == Trim(src)
      inner == IF Len(t) >= 2 THEN Trim(SubSeq(t, 2, Len(t) - 1)) ELSE <<>>
  IN IF t = <<"n","u","l","l">> THEN [ok |-> TRUE, value |-> Null]
     ELSE IF Len(t) >= 2 /\ t[1] = "{" /\ t[Len(t)] = "}"
       THEN IF inner = <<>> THEN [ok |-> TRUE, value |-> EmptyObject]
            ELSE IF /\ Len(inner) = 5
                    /\ inner[1] = "\"" /\ inner[2] \in Letters /\ inner[3] = "\""
                    /\ inner[4] = ":" /\ inner[5] \in Digits
              THEN [ok |-> TRUE,
                    value |-> [type |-> "object", members |-> (inner[2] :> inner[5])]]
              ELSE [ok |-> FALSE, value |-> Null]
       ELSE [ok |-> FALSE, value |-> Null]

DecisionRules_uncaught(rule) ==
  LET src == Field(rule, "Decision_Rules")
  IN JSONParse(IF src = <<>> THEN <<"{","}">> ELSE src).value

\* let decisionRules = {};
\* try { decisionRules = JSON.parse(rule.Decision_Rules || '{}'); } catch {}
DecisionRules(rule) ==
  LET src == Field(rule, "Decision_Rules")
      parsed == JSONParse(IF src = <<>> THEN <<"{","}">> ELSE src)
  IN IF parsed.ok THEN parsed.value ELSE EmptyObject

\* rule.Severity || 'MEDIUM'
Severity(rule) ==
  IF Field(rule, "Severity") = <<>> THEN <<"M","E","D","I","U","M">> ELSE rule["Severity"]

DefaultReasoning_emptyrule ==
  [pattern |-> <<>>, stylePriority |-> <<>>, colorMood |-> <<>>, typographyMood |-> <<>>,
   keyEffects |-> <<>>, antiPatterns |-> <<>>, severity |-> <<"M","E","D","I","U","M">>]

\* applyReasoning, if (!rule) return { ... }
DefaultReasoning ==
  [pattern |-> <<"H","e","r","o"," ","+"," ","F","e","a","t","u","r","e","s"," ","+"," ","C","T","A">>,
   stylePriority |-> <<<<"M","i","n","i","m","a","l","i","s","m">>, <<"F","l","a","t"," ","D","e","s","i","g","n">>>>,
   colorMood |-> <<"P","r","o","f","e","s","s","i","o","n","a","l">>,
   typographyMood |-> <<"C","l","e","a","n">>,
   keyEffects |-> <<"S","u","b","t","l","e"," ","h","o","v","e","r"," ","t","r","a","n","s","i","t","i","o","n","s">>,
   antiPatterns |-> <<>>,
   severity |-> <<"M","E","D","I","U","M">>]

\* applyReasoning(category, reasoningData): the rule findReasoningRule gave
\* (its position, 0 for null) and the record returned
ApplyReasoning(category, reasoningData) ==
  LET found_ == FindReasoningRule(category, reasoningData)
      rule == reasoningData[found_]
  IN IF found_ = 0
       THEN [rule |-> 0, reasoning |-> DefaultReasoning]
       ELSE [rule |-> found_,
             reasoning |->
               [pattern |-> Field(rule, "Recommended_Pattern"),
                stylePriority |-> StylePriority(rule),
                colorMood |-> Field(rule, "Color_Mood"),
                typographyMood |-> Field(rule, "Typography_Mood"),
                keyEffects |-> Field(rule, "Key_Effects"),
                antiPatterns |-> Field(rule, "Anti_Patterns"),
                decisionRules |-> DecisionRules(rule),
                severity |-> Severity(rule)]]

\* rules of a reasoning table: column name -> text; a rule need not have every
\* column.  Categories "retail", "Retail", "E-commerce / Retail",
\* "Health Care / Fitness", none, "Commerce-App", " / "
RulePool ==
  {("UI_Category" :> <<"r","e","t","a","i","l">> @@ "Recommended_Pattern" :> <<"H","e","r","o">> @@
     "Style_Priority" :> <<"F","l","a","t"," ","+"," ","B","o","l","d"," ","t","y","p","e">> @@ "Color_Mood" :> <<"W","a","r","m">> @@
     "Decision_Rules" :> <<"{","\"","a","\"",":","1","}">> @@ "Severity" :> <<"H","I","G","H">>),
   ("UI_Category" :> <<"R","e","t","a","i","l">> @@ "Recommended_Pattern" :> <<"G","r","i","d">> @@
     "Style_Priority" :> <<"+"," ","G","l","a","s","s"," ","+","+","N","e","o"," ","p","o","p"," ">> @@ "Typography_Mood" :> <<"B","o","l","d">> @@
     "Key_Effects" :> <<"G","l","o","w">> @@ "Decision_Rules" :> <<"{","\"","a","\"",":","1">>),
   ("UI_Category" :> <<"E","-","c","o","m","m","e","r","c","e"," ","/"," ","R","e","t","a","i","l">> @@ "Recommended_Pattern" :> <<"F","u","n","n","e","l">> @@
     "Anti_Patterns" :> <<"C","a","r","o","u","s","e","l">> @@ "Severity" :> <<>>),
   ("UI_Category" :> <<"H","e","a","l","t","h"," ","C","a","r","e"," ","/"," ","F","i","t","n","e","s","s">> @@ "Style_Priority" :> <<"S","o","f","t">> @@
     "Decision_Rules" :> <<"n","u","l","l">> @@ "Severity" :> <<"L","O","W">>),
   ("Recommended_Pattern" :> <<"P","l","a","i","n">> @@ "Style_Priority" :> <<" ">> @@
     "Decision_Rules" :> <<" ","{"," ","}"," ">>),
   ("UI_Category" :> <<"C","o","m","m","e","r","c","e","-","A","p","p">> @@ "Recommended_Pattern" :> <<"C","a","r","t">>),
   ("UI_Category" :> <<" ","/"," ">> @@ "Decision_Rules" :> <<"o","o","p","s">> @@ "Color_Mood" :> <<"C","o","o","l">>)}

\* the categories given to applyReasoning
CategoryPool ==
  {<<"r","e","t","a","i","l">>, <<"R","E","T","A","I","L">>, <<"E","-","c","o","m","m","e","r","c","e"," ","/"," ","R","e","t","a","i","l">>, <<"d","a","y","c","a","r","e">>, <<"z","z","z">>,
   <<"m","y"," ","f","i","t","n","e","s","s","-","a","p","p">>, <<>>, <<"a"," ","b">>}

\* the pieces a style-priority text given on its own is made of
PriorityPieces == {<<"+">>, <<" ">>, <<"a">>, <<"B"," ","c">>}

\* the arguments of applyReasoning: a category and a table of rules from the
\* pools, or a table with one rule whose style priority is made of the pieces
ReasonInputs ==
  {[category |-> c, rules |-> t] : c \in CategoryPool, t \in SeqsUpTo(RulePool, MaxRules)}
    \cup
  {[category |-> <<"s","a","a","s">>,
    rules |-> <<("UI_Category" :> <<"S","a","a","S">> @@ "Style_Priority" :> Concat(ps))>>] :
      ps \in SeqsUpTo(PriorityPieces, MaxPriorityPieces)}

----------------------------------------------------------------------------
(* Selection among the style results *)

\* the names of the style columns, character by character
ColumnChars ==
  ("Style Category" :> <<"S","t","y","l","e"," ","C","a","t","e","g","o","r","y">> @@
   "Type" :> <<"T","y","p","e">> @@
   "Keywords" :> <<"K","e","y","w","o","r","d","s">> @@
   "Primary Colors" :> <<"P","r","i","m","a","r","y"," ","C","o","l","o","r","s">> @@
   "Effects & Animation" :> <<"E","f","f","e","c","t","s"," ","&"," ","A","n","i","m","a","t","i","o","n">> @@
   "Best For" :> <<"B","e","s","t"," ","F","o","r">> @@
   "Performance" :> <<"P","e","r","f","o","r","m","a","n","c","e">> @@
   "Accessibility" :> <<"A","c","c","e","s","s","i","b","i","l","i","t","y">>)

\* JSON.stringify of a string: quotes around it, '"' and '\' escaped, a tab
\* and a line feed written as \t and \n
RECURSIVE Escape(_)
Escape(s) ==
  IF Len(s) = 0 THEN <<>>
  ELSE (IF s[1] = "\"" THEN <<"\\", "\"">>
        ELSE IF s[1] = "\\" THEN <<"\\", "\\">>
        ELSE IF s[1] = "\t" THEN <<"\\", "t">>
        ELSE IF s[1] = "\n" THEN <<"\\", "n">>
        ELSE <<s[1]>>) \o Escape(Tail(s))
Quote(s) == <<"\"">> \o Escape(s) \o <<"\"">>

\* JSON.stringify(result) for a record of searchDesignCSV('style', ...): its
\* properties in the order they were set, that of the output columns
RECURSIVE Members(_, _)
Members(result, cols) ==
  IF Len(cols) = 0 THEN <<>>
  ELSE IF Head(cols) \notin DOMAIN result THEN Members(result, Tail(cols))
  ELSE LET member == Quote(ColumnChars[Head(cols)]) \o <<":">> \o Quote(result[Head(cols)])
           rest == Members(result, Tail(cols))
       IN IF rest = <<>> THEN member ELSE member \o <<",">> \o rest
Stringify(result) ==
  <<"{">> \o Members(result, DESIGN_CSV_CONFIG.style.outputCols) \o <<"}">>

\* (result['Style Category'] || '').toLowerCase()
StyleName(result) == toLowerCase(Field(result, "Style Category"))

NameMatch_oneway(priority, result) ==
  Includes(Trim(toLowerCase(priority)), StyleName(result))

\* first pass, the test on one priority and one result:
\* pLower.includes(styleName) || styleName.includes(pLower)
NameMatch(priority, result) ==
  LET pLower == Trim(toLowerCase(priority))
  IN Includes(pLower, StyleName(result)) \/ Includes(StyleName(result), pLower)

FirstPass_resultsfirst(results, priorityKeywords) ==
  LET hits == {i \in DOMAIN results :
                 \E p \in DOMAIN priorityKeywords : NameMatch(priorityKeywords[p], results[i])}
  IN IF hits = {} THEN 0 ELSE CHOOSE i \in hits : \A j \in hits : i <= j

\* first pass: for each priority in order, for each result in order, return
\* the first result whose name matches; the position (from 1) of that result,
\* 0 when the loops end
RECURSIVE FirstPass(_, _)
FirstPass(results, priorityKeywords) ==
  IF Len(priorityKeywords) = 0 THEN 0
  ELSE LET hits == {i \in DOMAIN results : NameMatch(Head(priorityKeywords), results[i])}
       IN IF hits # {} THEN CHOOSE i \in hits : \A j \in hits : i <= j
          ELSE FirstPass(results, Tail(priorityKeywords))

KeywordScore_cumulative(kw, result) ==
  LET kwLower == Trim(toLowerCase(kw))
  IN (IF Includes(StyleName(result), kwLower) THEN 10 ELSE 0)
       + (IF Includes(toLowerCase(Field(result, "Keywords")), kwLower) THEN 3 ELSE 0)
       + (IF Includes(toLowerCase(Stringify(result)), kwLower) THEN 1 ELSE 0)

\* second pass, what one keyword adds to the score of one result
KeywordScore(kw, result) ==
  LET kwLower == Trim(toLowerCase(kw))
  IN IF Includes(StyleName(result), kwLower) THEN 10
     ELSE IF Includes(toLowerCase(Field(result, "Keywords")), kwLower) THEN 3
     ELSE IF Includes(toLowerCase(Stringify(result)), kwLower) THEN 1
     ELSE 0

\* second pass, the score of one result over all priority keywords
RECURSIVE ResultScore(_, _)
ResultScore(result, priorityKeywords) ==
  IF Len(priorityKeywords) = 0 THEN 0
  ELSE KeywordScore(Head(priorityKeywords), result)
         + ResultScore(result, Tail(priorityKeywords))

\* scored.sort((a, b) => b.score - a.score); scored[0]: the sort is stable, so
\* scored[0] is the first result with the largest score (its position, from 1)
BestScored(results, priorityKeywords) ==
  CHOOSE i \in DOMAIN results :
    \A j \in DOMAIN results :
      \/ ResultScore(results[j], priorityKeywords) < ResultScore(results[i], priorityKeywords)
      \/ (ResultScore(results[j], priorityKeywords) = ResultScore(results[i], priorityKeywords)
            /\ i <= j)

TopResult_last(results) == results[Len(results)]

\* results[0]
TopResult(results) == results[1]

\* selectBestMatch(results, priorityKeywords); given is FALSE when no
\* priorityKeywords are passed
SelectBestMatch(results, priorityKeywords, given) ==
  IF Len(results) = 0 THEN EmptyMap
  ELSE IF ~given \/ Len(priorityKeywords) = 0 THEN TopResult(results)
  ELSE IF FirstPass(results, priorityKeywords) # 0
    THEN results[FirstPass(results, priorityKeywords)]
  ELSE LET best == BestScored(results, priorityKeywords)
       IN IF ResultScore(results[best], priorityKeywords) > 0
            THEN results[best] ELSE TopResult(results)

\* records of a style search: only non-empty values, only output columns
CandidatePool ==
  {("Style Category" :> <<"M","i","n","i","m","a","l","i","s","m">> @@ "Keywords" :> <<"c","l","e","a","n",","," ","f","l","a","t">>),
   ("Style Category" :> <<"F","l","a","t"," ","D","e","s","i","g","n">> @@
     "Keywords" :> <<"b","o","l","d"," ","2","D">>),
   ("Keywords" :> <<"g","l","a","s","s">> @@ "Best For" :> <<"B","o","l","d"," ","\"","h","e","r","o","\"">>),
   ("Style Category" :> <<"G","l","a","s","s","m","o","r","p","h","i","s","m">> @@ "Best For" :> <<"B","o","l","d"," ","m","i","n","i","m","a","l","i","s","m"," ","a","p","p","s">>)}

\* priority keywords
PriorityPool == {<<"M","i","n","i","m","a","l","i","s","m">>, <<" ","G","l","a","s","s"," ">>, <<"b","o","l","d">>}

\* the arguments of selectBestMatch: results and priority keywords from the
\* pools, or no priority keywords at all
ResultLists == SeqsUpTo(CandidatePool, MaxCandidates)
PriorityLists == SeqsUpTo(PriorityPool, MaxPriorities)

----------------------------------------------------------------------------
(* The design system generator *)

\* loadDesignData('ui-reasoning.json')
ReasoningFile == "ui-reasoning.json"

\* the value of an expression, evaluated once: the element of a singleton
Only(S) == CHOOSE x \in S : TRUE

\* a || b on strings
Or(a, b) == IF a # <<>> THEN a ELSE b

\* results[0] || {}
FirstOrEmpty(results) == IF Len(results) > 0 THEN results[1] ELSE EmptyMap

SearchDesignCSV_sorting(cache, domain, q, maxResults) ==
  IF domain \in InheritedNames
    THEN [cache |-> cache, loads |-> <<>>, found |-> [NoFound EXCEPT !.threw = TRUE]]
  ELSE IF domain \notin DOMAIN DESIGN_CSV_CONFIG
    THEN [cache |-> cache, loads |-> <<>>, found |-> NoFound]
  ELSE LET config == DESIGN_CSV_CONFIG[domain]
           loaded == LoadDesignData(cache, config.file)
           out == SearchData(config, loaded.data, q, maxResults)
       IN [cache |-> [loaded.cache EXCEPT ![config.file] =
                        [k \in 1..Len(out.ranked) |-> loaded.data[out.ranked[k][1] + 1]]],
           loads |-> <<LoadEvent(config.file, loaded)>>,
           found |-> out]

\* searchDesignCSV(domain, q, maxResults) on a cache: the cache afterwards,
\* the calls of loadDesignData it made, and what it returned
SearchDesignCSV(cache, domain, q, maxResults) ==
  IF domain \in InheritedNames
    THEN [cache |-> cache, loads |-> <<>>, found |-> [NoFound EXCEPT !.threw = TRUE]]
  ELSE IF domain \notin DOMAIN DESIGN_CSV_CONFIG
    THEN [cache |-> cache, loads |-> <<>>, found |-> NoFound]
  ELSE LET config == DESIGN_CSV_CONFIG[domain]
           loaded == LoadDesignData(cache, config.file)
       IN [cache |-> loaded.cache,
           loads |-> <<LoadEvent(config.file, loaded)>>,
           found |-> SearchData(config, loaded.data, q, maxResults)]

StyleQuery_allpriorities(q, stylePriority) ==
  IF Len(stylePriority) > 0 THEN q \o <<" ">> \o JoinSpace(stylePriority) ELSE q

\* stylePriority.length ? `${query} ${stylePriority.slice(0, 2).join(' ')}` : query
StyleQuery(q, stylePriority) ==
  IF Len(stylePriority) > 0
    THEN q \o <<" ">> \o JoinSpace(Slice(stylePriority, 2))
    ELSE q

PatternName_fixed(bestLanding, reasoning) ==
  Or(Field(bestLanding, "Pattern Name"), <<"H","e","r","o"," ","+"," ","F","e","a","t","u","r","e","s"," ","+"," ","C","T","A">>)

\* bestLanding['Pattern Name'] || reasoning.pattern || 'Hero + Features + CTA'
PatternName(bestLanding, reasoning) ==
  Or(Field(bestLanding, "Pattern Name"), Or(reasoning.pattern, <<"H","e","r","o"," ","+"," ","F","e","a","t","u","r","e","s"," ","+"," ","C","T","A">>))

Colors_nofallback(bestColor) ==
  [primary |-> Field(bestColor, "Primary (Hex)"),
   secondary |-> Field(bestColor, "Secondary (Hex)"),
   cta |-> Field(bestColor, "CTA (Hex)"),
   background |-> Field(bestColor, "Background (Hex)"),
   text |-> Field(bestColor, "Text (Hex)"),
   notes |-> Field(bestColor, "Notes")]

\* colors: { ... }
Colors(bestColor) ==
  [primary |-> Or(Field(bestColor, "Primary (Hex)"), <<"#","2","5","6","3","E","B">>),
   secondary |-> Or(Field(bestColor, "Secondary (Hex)"), <<"#","3","B","8","2","F","6">>),
   cta |-> Or(Field(bestColor, "CTA (Hex)"), <<"#","F","9","7","3","1","6">>),
   background |-> Or(Field(bestColor, "Background (Hex)"), <<"#","F","8","F","A","F","C">>),
   text |-> Or(Field(bestColor, "Text (Hex)"), <<"#","1","E","2","9","3","B">>),
   notes |-> Field(bestColor, "Notes")]

\* generateDesignSystem(q, projectName) on a cache: the cache afterwards, the
\* calls of loadDesignData and of searchDesignCSV it made, in order, the
\* arguments it gave to selectBestMatch, and the record returned
GenerateDesignSystem(cache, q, projectName) ==
  LET Returned(rules, product, category, reasoning, styleQuery, style, color, landing,
               typography, bestStyle, bestColor, bestTypography, bestLanding,
               styleEffects, combinedEffects) ==
        [cache |-> typography.cache,
         loads |-> <<LoadEvent(ReasoningFile, rules)>> \o product.loads \o style.loads
                     \o color.loads \o landing.loads \o typography.loads,
         searches |-> <<[domain |-> "product", query |-> q, maxResults |-> 1],
                        [domain |-> "style", query |-> styleQuery, maxResults |-> 3],
                        [domain |-> "color", query |-> q, maxResults |-> 2],
                        [domain |-> "landing", query |-> q, maxResults |-> 2],
                        [domain |-> "typography", query |-> q, maxResults |-> 2]>>,
         results |-> [product |-> product.found.results, style |-> style.found.results,
                      color |-> color.found.results, landing |-> landing.found.results,
                      typography |-> typography.found.results],
         selected |-> [results |-> style.found.results,
                       priorityKeywords |-> reasoning.stylePriority],
         best |-> [style |-> bestStyle, color |-> bestColor, typography |-> bestTypography,
                   landing |-> bestLanding],
         threw |-> \E s \in {product, style, color, landing, typography} : s.found.threw,
         reasoning |-> reasoning,
         value |->
           [projectName |-> Or(projectName, toUpperCase(q)),
            category |-> category,
            pattern |->
              [name |-> PatternName(bestLanding, reasoning),
               sections |-> Or(Field(bestLanding, "Section Order"), <<"H","e","r","o"," ",">"," ","F","e","a","t","u","r","e","s"," ",">"," ","C","T","A">>),
               ctaPlacement |-> Or(Field(bestLanding, "Primary CTA Placement"), <<"A","b","o","v","e"," ","f","o","l","d">>),
               colorStrategy |-> Field(bestLanding, "Color Strategy"),
               conversion |-> Field(bestLanding, "Conversion Optimization")],
            style |->
              [name |-> Or(Field(bestStyle, "Style Category"), <<"M","i","n","i","m","a","l","i","s","m">>),
               type |-> Or(Field(bestStyle, "Type"), <<"G","e","n","e","r","a","l">>),
               effects |-> styleEffects,
               keywords |-> Field(bestStyle, "Keywords"),
               bestFor |-> Field(bestStyle, "Best For"),
               performance |-> Field(bestStyle, "Performance"),
               accessibility |-> Field(bestStyle, "Accessibility")],
            colors |-> Colors(bestColor),
            typography |->
              [heading |-> Or(Field(bestTypography, "Heading Font"), <<"I","n","t","e","r">>),
               body |-> Or(Field(bestTypography, "Body Font"), <<"I","n","t","e","r">>),
               mood |-> Or(Field(bestTypography, "Mood/Style Keywords"), reasoning.typographyMood),
               bestFor |-> Field(bestTypography, "Best For"),
               googleFontsUrl |-> Field(bestTypography, "Google Fonts URL"),
               cssImport |-> Field(bestTypography, "CSS Import")],
            keyEffects |-> combinedEffects,
            antiPatterns |-> reasoning.antiPatterns,
            severity |-> reasoning.severity]]
  \* each statement of the function binds its value once; the bindings are
  \* listed from the last statement up to the first
  IN Only({Only({Only({Only({Only({Only({Only({Only({Only({Only({
       Returned(rules, product, category, reasoning, styleQuery, style, color, landing,
                typography, bestStyle, FirstOrEmpty(color.found.results),
                FirstOrEmpty(typography.found.results), FirstOrEmpty(landing.found.results),
                Field(bestStyle, "Effects & Animation"),
                Or(Field(bestStyle, "Effects & Animation"), reasoning.keyEffects)) :
       bestStyle \in {SelectBestMatch(style.found.results, reasoning.stylePriority, TRUE)}}) :
       typography \in {SearchDesignCSV(landing.cache, "typography", q, 2)}}) :
       landing \in {SearchDesignCSV(color.cache, "landing", q, 2)}}) :
       color \in {SearchDesignCSV(style.cache, "color", q, 2)}}) :
       style \in {SearchDesignCSV(product.cache, "style", styleQuery, 3)}}) :
       styleQuery \in {StyleQuery(q, reasoning.stylePriority)}}) :
       reasoning \in {ApplyReasoning(category, rules.data).reasoning}}) :
       category \in {Or(Field(FirstOrEmpty(product.found.results), "Product Type"),
                        <<"G","e","n","e","r","a","l">>)}}) :
       product \in {SearchDesignCSV(rules.cache, "product", q, 1)}}) :
       rules \in {LoadDesignData(cache, ReasoningFile)}})

\* rows of the design-data files of a deployment, in file order
DesignRows ==
  <<("Product Type" :> <<"S","a","a","S">> @@ "Keywords" :> <<"d","a","s","h","b","o","a","r","d"," ","a","p","p">> @@
      "Style Category" :> <<"F","l","a","t"," ","D","e","s","i","g","n">> @@ "Effects & Animation" :> <<"F","a","d","e">> @@
      "Section Order" :> <<"H","e","r","o"," ",">"," ","C","T","A">> @@ "Primary (Hex)" :> <<"#","1","1","1","1","1","1">> @@
      "Heading Font" :> <<"R","o","b","o","t","o">> @@ "Mood/Style Keywords" :> <<"d","a","s","h","b","o","a","r","d">>),
    ("Product Type" :> <<"B","l","o","g">> @@ "Keywords" :> <<"b","l","o","g"," ","d","a","s","h","b","o","a","r","d">> @@
      "Style Category" :> <<"B","o","l","d"," ","t","y","p","e">> @@ "Notes" :> <<"b","l","o","g">> @@
      "CTA (Hex)" :> <<"#","0","0","F","F","0","0">> @@ "Category" :> <<"b","l","o","g"," ","d","a","s","h","b","o","a","r","d">> @@
      "Body Font" :> <<"L","o","r","a">>),
    ("Keywords" :> <<"b","l","o","g"," ","a","p","p"," ","d","a","s","h","b","o","a","r","d">> @@ "Style Category" :> <<"N","e","o">> @@
      "Pattern Name" :> <<"b","l","o","g"," ","f","i","r","s","t">> @@ "Notes" :> <<"d","a","s","h","b","o","a","r","d">> @@
      "Best For" :> <<"d","a","s","h","b","o","a","r","d">>),
    ("Keywords" :> <<"d","a","s","h","b","o","a","r","d">> @@ "Type" :> <<"G","e","n","e","r","a","l">> @@
      "Product Type" :> <<"S","a","a","S">> @@ "Font Pairing Name" :> <<"T","e","c","h">>)>>

\* the rows of seq at the positions in at, in order
Pick(seq, at) ==
  LET RECURSIVE Upto(_)
      Upto(n) == IF n = 0 THEN <<>>
                 ELSE IF n \in at THEN Append(Upto(n - 1), seq[n]) ELSE Upto(n - 1)
  IN Upto(Len(seq))

\* the contents of a collection file: some of the rows, at most MaxDesignRows
DesignRowLists ==
  {Pick(DesignRows, at) : at \in {a \in SUBSET (1..Len(DesignRows)) :
                                    Cardinality(a) <= MaxDesignRows}}

\* rules of the reasoning table of a deployment
DesignRulePool ==
  {("UI_Category" :> <<"S","a","a","S">> @@ "Recommended_Pattern" :> <<"F","u","n","n","e","l">> @@
     "Style_Priority" :> <<"N","e","o"," ","+"," ","B","o","l","d"," ","t","y","p","e"," ","+"," ","F","l","a","t">> @@ "Typography_Mood" :> <<"B","o","l","d">> @@
     "Key_Effects" :> <<"G","l","o","w">> @@ "Severity" :> <<"H","I","G","H">>),
   ("UI_Category" :> <<"B","l","o","g">> @@ "Anti_Patterns" :> <<"C","a","r","o","u","s","e","l">>)}

\* the files of a deployment
AllFiles == Files \cup {ReasoningFile}

\* a deployment: the same rows in every collection file, and a rule table
DesignDiskPool ==
  {[f \in AllFiles |-> IF f = ReasoningFile THEN rules ELSE rows] :
     rows \in DesignRowLists,
     rules \in SeqsUpTo(DesignRulePool, MaxRules)}

\* the deployments of a running process: no rows and no rules, or three rows
\* and a rule
CacheDiskPool ==
  {[f \in AllFiles |-> <<>>],
   [f \in AllFiles |->
      IF f = ReasoningFile
        THEN <<CHOOSE r \in DesignRulePool : r["UI_Category"] = <<"S","a","a","S">>>>
        ELSE Pick(DesignRows, {1, 2, 3})]}

\* the searches and queries of a running process
CacheDomainPool == {"style", "color", "icons"}
CacheQueryPool == {<<"d","a","s","h","b","o","a","r","d">>, <<"b","l","o","g">>}

\* the queries and project names given to generateDesignSystem
DesignQueryPool == {<<"d","a","s","h","b","o","a","r","d">>, <<"b","l","o","g">>, <<"z","z","z">>, <<"c","o","n","s","t","r","u","c","t","o","r"," ","a","p","p">>}
ProjectNamePool == {<<>>, <<"A","c","m","e">>}

----------------------------------------------------------------------------
(* The prompt text of a design system *)

\* one line of the template literal
L(line) == <<line>>

\* (ds.antiPatterns || '').split('+').map(p => '- ' + p.trim())
\*   .filter(l => l !== '- ').join('\n'), as the lines it puts in the text
AntiLines(ds) ==
  LET parts == SplitPlus(ds.antiPatterns)
      lines == SelectSeq([k \in DOMAIN parts |-> <<"-", " ">> \o Trim(parts[k])],
                         LAMBDA l : l # <<"-", " ">>)
  IN IF lines = <<>> THEN L(<<>>) ELSE lines

\* formatDesignSystemForPrompt(ds): the lines of the text returned.  The
\* characters of the template outside ASCII are written "_".
FormatDesignSystemForPrompt(ds) ==
     L(<<"_","_","_","_","_","_","_","_","_","_","_","_","_","_","_","_","_","_","_","_","_","_","_","_","_","_","_">>) \o
     L(<<"_","_","_","_","_","_","-","_","_","_","_","_","_","_"," ","(","_","_","_","_","_","_","_","_","_","_","_","_","_"," ","_","_","_","_","_","_","_","_","_","_","_","_","_"," ","_","_","_"," ","_","_","_","_",":"," ">> \o ds.category \o <<")">>) \o
     L(<<"_","_","_","_","_","_","_","_","_","_","_","_","_","_","_","_","_","_","_","_","_","_","_","_","_","_","_">>) \o
     L(<<>>) \o
     L(<<"A","E","S","T","H","E","T","I","C"," ","D","I","R","E","C","T","I","O","N",":"," ">> \o ds.style.name \o <<" ","_"," ">> \o Or(ds.style.keywords, ds.style.type)) \o
     L(IF ds.style.bestFor # <<>> THEN <<"B","e","s","t"," ","F","o","r",":"," ">> \o ds.style.bestFor ELSE <<>>) \o
     L(IF ds.style.performance # <<>>
            THEN <<"P","e","r","f","o","r","m","a","n","c","e",":"," ">> \o ds.style.performance \o <<" ","|"," ","A","c","c","e","s","s","i","b","i","l","i","t","y",":"," ">>
                   \o ds.style.accessibility
            ELSE <<>>) \o
     L(<<>>) \o
     L(<<"_","_","_","_","_","_","_","_","_","_","_",":">>) \o
     L(<<"-"," ","H","e","a","d","i","n","g",":"," ">> \o ds.typography.heading) \o
     L(<<"-"," ","B","o","d","y",":"," ">> \o ds.typography.body) \o
     L(<<"-"," ","M","o","o","d",":"," ">> \o ds.typography.mood) \o
     L(IF ds.typography.cssImport # <<>>
            THEN <<"-"," ","C","S","S"," ","I","m","p","o","r","t",":"," ">> \o ds.typography.cssImport ELSE <<>>) \o
     L(<<"-"," ","_","_","_","_","_","_","_","_"," ","_","_","_","_","_"," ","G","o","o","g","l","e"," ","F","o","n","t","s"," ","C","D","N"," ","_"," ","d","i","s","p","l","a","y","=","s","w","a","p"," ","+"," ","p","r","e","c","o","n","n","e","c","t">>) \o
     L(<<"-"," ","_","_","_","_","_","_","_","_","_"," ","t","y","p","o","g","r","a","p","h","y"," ","_","_","_","_","_","_","_","_","_","_",":"," ","_","_","_","_","_","_","_","_"," ","_","_","_","_","_","_","_","_",","," ","_","_","_","_",","," ","_","_","_","_","_","_","_","_"," ","_","_","_","_","_"," ","s","c","a","l","e">>) \o
     L(<<>>) \o
     L(<<"_","_","_","_","_"," ","(","_","_","_","_","_","_","_","_"," ","_","_","_","_","_"," ","C","S","S"," ","c","u","s","t","o","m"," ","p","r","o","p","e","r","t","i","e","s"," ",":","r","o","o","t",")",":">>) \o
     L(<<"-"," ","P","r","i","m","a","r","y",":"," ">> \o ds.colors.primary) \o
     L(<<"-"," ","S","e","c","o","n","d","a","r","y",":"," ">> \o ds.colors.secondary) \o
     L(<<"-"," ","C","T","A",":"," ">> \o ds.colors.cta) \o
     L(<<"-"," ","B","a","c","k","g","r","o","u","n","d",":"," ">> \o ds.colors.background) \o
     L(<<"-"," ","T","e","x","t",":"," ">> \o ds.colors.text) \o
     L(IF ds.colors.notes # <<>> THEN <<"-"," ","N","o","t","e","s",":"," ">> \o ds.colors.notes ELSE <<>>) \o
     L(<<>>) \o
     L(<<"_","_","_","_","_","_","_"," ","_","_","_","_","_","_","_","_",":"," ">> \o ds.pattern.name) \o
     L(<<"-"," ","_","_","_","_","_","_",":"," ">> \o ds.pattern.sections) \o
     L(<<"-"," ","C","T","A",":"," ">> \o ds.pattern.ctaPlacement) \o
     L(IF ds.pattern.conversion # <<>>
            THEN <<"-"," ","C","o","n","v","e","r","s","i","o","n",":"," ">> \o ds.pattern.conversion ELSE <<>>) \o
     L(IF ds.pattern.colorStrategy # <<>>
            THEN <<"-"," ","C","o","l","o","r"," ","S","t","r","a","t","e","g","y",":"," ">> \o ds.pattern.colorStrategy ELSE <<>>) \o
     L(<<>>) \o
     L(<<"M","O","T","I","O","N"," ","_"," ","_","_","_","_","_","_","_",":">>) \o
     L(Or(ds.keyEffects, <<"-"," ","S","u","b","t","l","e"," ","h","o","v","e","r"," ","t","r","a","n","s","i","t","i","o","n","s"," ","(","1","5","0","-","3","0","0","m","s",")">>)) \o
     L(IF ds.style.effects # <<>> /\ ds.style.effects # ds.keyEffects
            THEN <<"-"," ">> \o ds.style.effects ELSE <<>>) \o
     L(<<>>) \o
     L(<<"_","_","_","_","-","_","_","_","_","_","_","_","_"," ","(","="," ","_","_","_","_","_","_",")",":">>) \o
     AntiLines(ds) \o
     L(<<"-"," ","_","_","_","_","_","_","_","_","_"," ","T","a","i","l","w","i","n","d","/","S","h","a","d","C","N"," ","l","a","y","o","u","t","s">>) \o
     L(<<"-"," ","_","_","_","_","_","_","_","_","_"," ","_","_","_","_","_","_"," ","(","I","n","t","e","r",","," ","R","o","b","o","t","o",","," ","A","r","i","a","l",","," ","s","y","s","t","e","m","-","u","i",")">>) \o
     L(<<"-"," ","_","_","_","_"," ","_","_","_","_","_","_"," ","_","_","_","_","_"," ","_","_","_","_","_","_","_"," ","_"," ","_","_","_","_","_","_","_","_"," ","_"," ","_","_","_","_","_","_","_","_","_">>) \o
     L(<<>>) \o
     L(<<"_","_","_","_","_","_","_","_","_","_","_","_","_","_"," ","_","_","_","_","_","_","_","_","_","_","_","_"," ","_","_","_","_","_","_","_",":">>) \o
     L(<<"-"," ","_","_","_","_","_","_","_","_","_",":"," ","e","m","o","j","i","s"," ","_","_","_"," ","_","_","_","_","_","_"," ","_"," ","_","_","_","_","_","_","_","_","_","_","_","_"," ","S","V","G"," ","(","H","e","r","o","i","c","o","n","s","/","L","u","c","i","d","e",")">>) \o
     L(<<"-"," ","c","u","r","s","o","r","-","p","o","i","n","t","e","r"," ","_","_"," ","_","_","_","_"," ","_","_","_","_","_","_","_","_","_","_","_","_"," ","_","_","_","_","_","_","_","_","_">>) \o
     L(<<"-"," ","H","o","v","e","r"," ","t","r","a","n","s","i","t","i","o","n","s",":"," ","1","5","0","-","3","0","0","m","s">>) \o
     L(<<"-"," ","p","r","e","f","e","r","s","-","r","e","d","u","c","e","d","-","m","o","t","i","o","n",":"," ","r","e","d","u","c","e"," ","_"," ","_","_","_","_","_","_","_","_","_"," ","_","_","_","_","_","_","_","_">>) \o
     L(<<"-"," ","_","_","_","_","_","_","_","_"," ","_","_","_","_","_","_",":"," ","_","_","_","_","_","_","_"," ","4",".","5",":","1"," ","(","A","A",")">>) \o
     L(<<"-"," ","F","o","c","u","s","-","v","i","s","i","b","l","e"," ","_","_","_","_","_"," ","_","_"," ","_","_","_","_","_","_","_","_","_","_","_","_","_"," ","_","_","_","_","_","_","_","_","_">>) \o
     L(<<"-"," ","R","e","s","p","o","n","s","i","v","e",":"," ","3","7","5","p","x",","," ","7","6","8","p","x",","," ","1","0","2","4","p","x",","," ","1","4","4","0","p","x">>) \o
     L(<<"-"," ","_","_","_","_","_","_"," ","_","_","_","_","_"," ","G","o","o","g","l","e"," ","F","o","n","t","s"," ","C","D","N"," ","_"," ","d","i","s","p","l","a","y","=","s","w","a","p"," ","+"," ","p","r","e","c","o","n","n","e","c","t">>)

----------------------------------------------------------------------------
(* The pipeline runner (src/pipeline.js) and its endpoints (src/server.js), *)
(* for one project.  JavaScript runs a handler or the continuation of an    *)
(* await to its next await without interruption: one action is one such     *)
(* stretch of code.  A value a step produces is known by the number of the  *)
(* run that produced it, 0 being the empty value.                           *)

PIPELINE_STEPS ==
  <<"step_1_2", "step_3", "step_4", "step_design", "step_5", "step_6", "step_7",
    "step_8_web", "step_fill">>

MODELS == <<"openai/gpt-5", "google/gemini-3-pro-preview", "anthropic/claude-sonnet-4.5">>

\* the fields of the meta file the pipeline writes
MetaKeys ==
  {"conversations", "grokCriteriaRaw", "grokAudienceRaw", "designSystemRaw",
   "compilerRawXml", "canvasRawHtml", "extractedRatings", "downloadedRatings"}

\* readProjectMeta when there is no file: {}
NoMeta == [currentStep |-> "", out |-> [k \in MetaKeys |-> 0]]

\* no meta file, no HTML file, no record in projects.json
NoMetaFile == [exists |-> FALSE, currentStep |-> "", out |-> [k \in MetaKeys |-> 0]]
NoHtml == [exists |-> FALSE, by |-> 0, step |-> ""]
NoProject == [exists |-> FALSE, status |-> "", currentStep |-> "", pipelineStatus |-> ""]

\* POST /api/projects: the record of a new project
NewProject == [exists |-> TRUE, status |-> "new", currentStep |-> "", pipelineStatus |-> "idle"]

\* the niche and geo of the project: designQuery is niche + ' ' + (geo || '')
Niche == <<"d","a","s","h","b","o","a","r","d">>
DesignQuery == Niche \o <<" ">>

\* an execution of runPipeline that has not been started
NewRun == [pc |-> "new", startFrom |-> "", startIdx |-> 0, meta |-> NoMeta,
           local |-> [k \in MetaKeys |-> 0], canvas |-> [by |-> 0, step |-> ""],
           log |-> <<>>]

NoRequest == [kind |-> "", apiKey |-> FALSE, startFrom |-> ""]

\* no request served and no pipeline started
PipelineIdle ==
  /\ project = NoProject
  /\ metaFile = NoMetaFile
  /\ htmlFile = NoHtml
  /\ runningPipelines = 0
  /\ currentRun = "null"
  /\ runs = [r \in 1..MaxRuns |-> NewRun]
  /\ emitted = <<>>
  /\ request = NoRequest
  /\ res = 0

\* stepOrder.indexOf(startFrom)
IndexOf(startFrom) ==
  IF \E i \in DOMAIN PIPELINE_STEPS : PIPELINE_STEPS[i] = startFrom
    THEN (CHOOSE i \in DOMAIN PIPELINE_STEPS : PIPELINE_STEPS[i] = startFrom) - 1
    ELSE -1

\* let startIdx = startFrom ? stepOrder.indexOf(startFrom) : 0;
\* if (startIdx < 0) startIdx = 0;        ("" is the absent startFrom)
StartIdx(startFrom) ==
  IF startFrom = "" THEN 0
  ELSE IF IndexOf(startFrom) < 0 THEN 0 ELSE IndexOf(startFrom)

\* the bound of the `if (startIdx <= ...)` that holds the step
GuardOf ==
  [step \in {PIPELINE_STEPS[i] : i \in DOMAIN PIPELINE_STEPS} |->
     IF step \in {"step_7", "step_8_web"} THEN 6 ELSE IndexOf(step)]

\* the first step after position i of PIPELINE_STEPS that a run with this
\* startIdx executes, "" when there is none
StepAfter(startIdx, i) ==
  LET later == {j \in DOMAIN PIPELINE_STEPS : j > i /\ startIdx <= GuardOf[PIPELINE_STEPS[j]]}
  IN IF later = {} THEN ""
     ELSE PIPELINE_STEPS[CHOOSE j \in later : \A k \in later : j <= k]

\* emit(event, { step, ... }): the event, with what is persisted as it is
\* sent; the run's log keeps the events it has emitted so far, in order,
\* but for the step_progress events
Emit(w, event, step) ==
  [w EXCEPT !.emitted =
              Append(@, [event |-> event, step |-> step, run |-> w.id,
                         metaStep |-> w.metaFile.currentStep,
                         projectStep |-> w.project.currentStep,
                         html |-> w.htmlFile]),
            !.run.log = IF event = "step_progress" THEN @
                        ELSE Append(@, [event |-> event, step |-> step])]

\* n times emit('step_progress', { step, ... })
RECURSIVE Progress(_, _, _)
Progress(w, step, n) ==
  IF n = 0 THEN w ELSE Progress(Emit(w, "step_progress", step), step, n - 1)

\* the run has produced the values of these variables
Produced(w, keys) ==
  [w EXCEPT !.run.local = [k \in MetaKeys |-> IF k \in keys THEN w.id ELSE @[k]]]

\* saveMeta({ currentStep: step, ...keys }): Object.assign(meta, updates), then
\* the whole meta object is written to the file; step "" is an update without
\* currentStep, and the cleared keys are written as ''
SaveMeta(w, step, keys, cleared) ==
  LET meta == [currentStep |-> IF step = "" THEN w.run.meta.currentStep ELSE step,
               out |-> [k \in MetaKeys |->
                          IF k \in cleared THEN 0
                          ELSE IF k \in keys THEN w.run.local[k] ELSE w.run.meta.out[k]]]
  IN [w EXCEPT !.run.meta = meta,
               !.metaFile = [exists |-> TRUE, currentStep |-> meta.currentStep,
                             out |-> meta.out]]

\* updateProject({ currentStep: step, status }): only when projects.json
\* still holds the project; status "" is an update without status
UpdateProject(w, step, status) ==
  IF w.project.exists
    THEN [w EXCEPT !.project.currentStep = step,
                   !.project.status = IF status = "" THEN @ ELSE status]
    ELSE w

\* canvasRawHtml = ...; writeProjectHtml(projectId, canvasRawHtml)
WriteProjectHtml(w, step) ==
  [w EXCEPT !.run.canvas = [by |-> w.id, step |-> step],
            !.htmlFile = [exists |-> TRUE, by |-> w.id, step |-> step]]

\* runPipeline from the head of a step to its first await (pc is then the
\* step), to a throw (pc "threw") or to the end of the function (pc
\* "returned"); step_design has no await and runs through to step_5
RECURSIVE Begin(_, _)
Begin(w, step) ==
  IF step = "" THEN [w EXCEPT !.run.pc = "returned"]
  ELSE IF step = "step_design"
    THEN LET started == Emit(w, "step_start", step)
             saved == SaveMeta(Produced(started, {"designSystemRaw"}), step,
                               {"designSystemRaw"}, {})
             done == Emit(UpdateProject(saved, step, ""), "step_done", step)
         IN Begin([done EXCEPT !.designed = TRUE], StepAfter(w.run.startIdx, IndexOf(step) + 1))
  ELSE IF step = "step_fill"
    THEN LET started == Emit(w, "step_start", step)
             canvas == IF started.run.canvas.by # 0 THEN started.run.canvas
                       ELSE [by |-> started.htmlFile.by, step |-> started.htmlFile.step]
         IN IF canvas.by = 0
              THEN [started EXCEPT !.run.pc = "threw"]
              ELSE [started EXCEPT !.run.canvas = canvas, !.run.pc = step]
  ELSE IF step = "step_1_2"
    THEN [Produced(Emit(w, "step_start", step), {"conversations"}) EXCEPT !.run.pc = step]
  ELSE [Emit(w, "step_start", step) EXCEPT !.run.pc = step]

\* saveMeta, updateProject and emit('step_done') at the end of a step
Done(w, step, keys, cleared, status) ==
  Emit(UpdateProject(SaveMeta(w, step, keys, cleared), step, status), "step_done", step)

\* the end of step_7: saveMeta({ extractedRatings }); updateProject({
\* currentStep: 'step_7' }); emit('step_done', ...)
Step7Done(w) ==
  Emit(UpdateProject(SaveMeta(w, "", {"extractedRatings"}, {}), "step_7", ""),
       "step_done", "step_7")

Erred_never(ok) == FALSE

\* if (data.error) throw new Error(...): the answer of the call is an error
Erred(ok) == ~ok

\* runPipeline from the return of the call it awaits at pc to its next await,
\* throw or end: ok tells whether the call gave a usable answer, n how many
\* models answered (step_1_2) or how many ratings were extracted (step_7)
Continue(w, ok, n) ==
  LET pc == w.run.pc
      next == StepAfter(w.run.startIdx, IndexOf(IF pc = "step_1_2b" THEN "step_1_2" ELSE pc) + 1)
      threw == [w EXCEPT !.run.pc = "threw"]
  IN IF pc = "step_1_2"
       THEN [Progress(w, "step_1_2", n) EXCEPT !.run.pc = "step_1_2b"]
     ELSE IF pc = "step_1_2b"
       THEN Begin(Done(Progress(w, "step_1_2", n), "step_1_2", {"conversations"}, {}, ""), next)
     ELSE IF pc = "step_3"
       THEN IF Erred(ok) THEN threw
            ELSE Begin(Done(Produced(w, {"grokCriteriaRaw"}), pc, {"grokCriteriaRaw"}, {}, ""),
                       next)
     ELSE IF pc = "step_4"
       THEN IF Erred(ok) THEN threw
            ELSE Begin(Done(Produced(w, {"grokAudienceRaw"}), pc,
                            {"grokCriteriaRaw", "grokAudienceRaw"}, {}, ""), next)
     ELSE IF pc = "step_5"
       THEN IF Erred(ok) THEN threw
            ELSE Begin(Done(Produced(w, {"compilerRawXml"}), pc,
                            {"compilerRawXml", "grokCriteriaRaw", "grokAudienceRaw"}, {}, ""),
                       next)
     ELSE IF pc = "step_6"
       THEN IF Erred(ok) THEN threw
            ELSE Begin(Done(WriteProjectHtml(w, pc), pc,
                            {"compilerRawXml", "grokCriteriaRaw", "grokAudienceRaw"},
                            {"canvasRawHtml"}, "generated"), next)
     ELSE IF pc = "step_7"
       THEN IF Erred(ok) THEN threw
            ELSE LET done == Step7Done(Produced(w, {"extractedRatings"}))
                     started == Emit(done, "step_start", "step_8_web")
                 IN [Progress(started, "step_8_web", n) EXCEPT !.run.pc = "step_8_web"]
     ELSE IF pc = "step_8_web"
       THEN Begin(Done(Produced(w, {"downloadedRatings"}), pc,
                       {"extractedRatings", "downloadedRatings"}, {}, ""),
                  StepAfter(w.run.startIdx, IndexOf(pc) + 1))
     ELSE IF pc = "step_fill"
       THEN IF Erred(ok) THEN threw
            ELSE Begin(Done(WriteProjectHtml(w, pc), pc, {}, {}, "filled"), "")
     ELSE w

\* the .then and .catch handlers of the promise of runPipeline
Settle(w) ==
  IF w.run.pc \in {"returned", "threw"}
    THEN LET ended == IF w.run.pc = "returned" THEN "done" ELSE "error"
             written == IF w.project.exists
                          THEN [w EXCEPT !.project.pipelineStatus = ended]
                          ELSE w
             sent == Emit(written, IF ended = "done" THEN "pipeline_done" ELSE "pipeline_error", "")
         IN [sent EXCEPT !.registry = 0,
                         !.run.pc = IF ended = "done" THEN "resolved" ELSE "rejected"]
    ELSE w

\* the positions at which a run awaits a call
Awaiting ==
  {"step_1_2", "step_1_2b", "step_3", "step_4", "step_5", "step_6", "step_7",
   "step_8_web", "step_fill"}

\* what the call awaited at a position can give
Outcomes(pc) ==
  IF pc \in {"step_1_2", "step_1_2b"} THEN {[ok |-> TRUE, n |-> n] : n \in 0..Len(MODELS)}
  ELSE IF pc = "step_7" THEN {[ok |-> FALSE, n |-> 0]} \cup {[ok |-> TRUE, n |-> n] : n \in 0..MaxRatings}
  ELSE IF pc = "step_8_web" THEN {[ok |-> TRUE, n |-> 0]}
  ELSE {[ok |-> b, n |-> 0] : b \in BOOLEAN}

\* the values of startFrom in the requests
StartFromPool == {PIPELINE_STEPS[i] : i \in DOMAIN PIPELINE_STEPS} \cup {"", "step_9"}
LateStartFromPool == {"step_7", "step_fill"}

\* a run started now: const meta = readProjectMeta(projectId), and the
\* variables restored from it
StartedRun(startFrom) ==
  LET meta == IF metaFile.exists
                THEN [currentStep |-> metaFile.currentStep, out |-> metaFile.out]
                ELSE NoMeta
  IN [pc |-> "new", startFrom |-> startFrom, startIdx |-> StartIdx(startFrom),
      meta |-> meta, local |-> meta.out,
      canvas |-> IF meta.out["canvasRawHtml"] # 0
                   THEN [by |-> meta.out["canvasRawHtml"], step |-> "meta"]
                   ELSE [by |-> htmlFile.by, step |-> htmlFile.step],
      log |-> <<>>]

\* the state a stretch of code of run r works on
World(r, run) ==
  [id |-> r, run |-> run, project |-> project, metaFile |-> metaFile, htmlFile |-> htmlFile,
   registry |-> runningPipelines, emitted |-> <<>>, designed |-> FALSE]

----------------------------------------------------------------------------
(* withRetry (src/pipeline.js): one call of it.  fn is the function given   *)
(* to it; its k-th call returns the value k or throws an error.             *)

\* what fn can throw: err.name and err.message ("" and <<>> when absent)
ErrorPool ==
  {[name |-> "TypeError", message |-> <<"f","e","t","c","h"," ","f","a","i","l","e","d">>],
   [name |-> "Error", message |-> <<"r","e","a","d"," ","E","C","O","N","N","R","E","S","E","T">>],
   [name |-> "Error", message |-> <<"H","T","T","P"," ","5","0","0">>],
   [name |-> "", message |-> <<>>]}

\* const isNetworkError = err.name === 'TypeError' || err.message?.includes('fetch') || ...
IsNetworkError(err) ==
  \/ err.name = "TypeError"
  \/ Includes(err.message, <<"f","e","t","c","h">>)
  \/ Includes(err.message, <<"n","e","t","w","o","r","k">>)
  \/ Includes(err.message, <<"E","C","O","N","N","R","E","S","E","T">>)
  \/ Includes(err.message, <<"E","T","I","M","E","D","O","U","T">>)

RECURSIVE Pow2(_)
\* Math.pow(2, attempt)
Pow2(n) == IF n = 0 THEN 1 ELSE 2 * Pow2(n - 1)

NoError == [name |-> "", message |-> <<>>]
NoOutcome == [threw |-> FALSE, err |-> NoError, value |-> 0]

\* withRetry not called
NoRetry == [pc |-> "idle", retries |-> 0, baseDelay |-> 0, attempt |-> 0, called |-> 0,
            outcomes |-> <<>>, delays |-> <<>>, result |-> NoOutcome]
RetryIdle == retry = NoRetry

\* for (let attempt = ...; attempt <= retries; ...) { try { return await fn() ...
\* the test of the loop, and the call of fn when it holds
Attempt(t) ==
  IF t.attempt <= t.retries
    THEN [t EXCEPT !.pc = "fn", !.called = @ + 1]
    ELSE [t EXCEPT !.pc = "returned", !.result = NoOutcome]

Settled_anyerror(t, outcome) ==
  IF ~outcome.threw
    THEN [t EXCEPT !.outcomes = Append(@, outcome), !.pc = "returned", !.result = outcome]
  ELSE IF t.attempt = t.retries
    THEN [t EXCEPT !.outcomes = Append(@, outcome), !.pc = "threw", !.result = outcome]
  ELSE [t EXCEPT !.outcomes = Append(@, outcome), !.pc = "delay",
                 !.delays = Append(@, t.baseDelay * Pow2(t.attempt))]

\* the call of fn that withRetry awaits returns or throws
Settled(t, outcome) ==
  IF ~outcome.threw
    THEN [t EXCEPT !.outcomes = Append(@, outcome), !.pc = "returned", !.result = outcome]
  ELSE IF ~IsNetworkError(outcome.err) \/ t.attempt = t.retries
    THEN [t EXCEPT !.outcomes = Append(@, outcome), !.pc = "threw", !.result = outcome]
  ELSE [t EXCEPT !.outcomes = Append(@, outcome), !.pc = "delay",
                 !.delays = Append(@, t.baseDelay * Pow2(t.attempt))]

----------------------------------------------------------------------------
(* step_8_web of runPipeline (src/pipeline.js): the downloads of the rating *)
(* sites.  Ratings are numbered from 1 in the order of extractedRatings.    *)

\* the names the ratings can have
RatingNames == <<"A", "B", "C", "D", "E", "F", "G", "H">>

\* the ratings step_7 left: all of different names, or the first two of one
\* name; and downloadedRatings as restored from the meta file: empty, or
\* with an entry of an earlier run (written by rating 0) under the first name
RatingsPool ==
  {[ratings |-> [i \in 1..n |-> [name |-> RatingNames[IF i = 2 /\ shared THEN 1 ELSE i],
                                 status |-> "pending"]],
    downloadedRatings |-> [name \in {RatingNames[1]} \cap (IF shared THEN {RatingNames[1]} ELSE {})
                             |-> 0]] :
     n \in 0..MaxSites, shared \in BOOLEAN}

Workers_perrating(n) == n

\* Math.min(5, extractedRatings.length)
Workers(n) == IF n < 5 THEN n ELSE 5

\* step_8_web not started
NoWeb == [pc |-> "idle", ratings |-> <<>>, rQueue |-> <<>>, workers |-> <<>>,
          fetches |-> <<>>, results |-> <<>>, downloadedRatings |-> <<>>]
WebIdle == web = NoWeb

\* processQueue of worker k from the test of its loop to its await of
\* downloadSite, or to its end (the worker then holds 0)
ProcessQueue(s, k) ==
  IF Len(s.rQueue) > 0
    THEN [s EXCEPT !.rQueue = Tail(@),
                   !.ratings[s.rQueue[1]].status = "loading",
                   !.fetches[s.rQueue[1]] = @ + 1,
                   !.workers[k] = s.rQueue[1]]
    ELSE [s EXCEPT !.workers[k] = 0]

RECURSIVE StartWorkers(_, _)
\* Array.from({ length: ... }, () => processQueue()): the workers, each run
\* to its first await, one after the other
StartWorkers(s, k) ==
  IF k > Len(s.workers) THEN s ELSE StartWorkers(ProcessQueue(s, k), k + 1)

\* await Promise.all(workers) returns when every worker has ended
AllEnded(s) ==
  IF \A k \in DOMAIN s.workers : s.workers[k] = 0 THEN [s EXCEPT !.pc = "done"] ELSE s

\* downloadedRatings[name] = { html, text }
SetEntry(entries, name, by) ==
  [n \in DOMAIN entries \cup {name} |-> IF n = name THEN by ELSE entries[n]]

\* the rest of the loop body of worker k after downloadSite returned
Downloaded(s, k, ok) ==
  IF ok
    THEN [s EXCEPT !.downloadedRatings = SetEntry(@, s.ratings[s.workers[k]].name, s.workers[k]),
                   !.ratings[s.workers[k]].status = "done",
                   !.results[s.workers[k]] = "ok"]
    ELSE [s EXCEPT !.ratings[s.workers[k]].status = "error",
                   !.results[s.workers[k]] = "failed"]

----------------------------------------------------------------------------
(* The protected blocks of step_fill (src/pipeline.js).  An HTML text is a  *)
(* sequence of pieces: a piece is one of the four marker comments, the tag  *)
(* </head>, a white-space character, a code fence, or a stretch of other    *)
(* text that holds no part of a marker.                                     *)

SeoStart == "<!-- PROTECTED:SEO:START -->"
SeoEnd == "<!-- PROTECTED:SEO:END -->"
CountersStart == "<!-- PROTECTED:COUNTERS:START -->"
CountersEnd == "<!-- PROTECTED:COUNTERS:END -->"
HeadClose == "</head>"
\* a code fence (three backquotes, written FENCE below) and one followed by html
Fence == "FENCE"
FenceHtml == "FENCEhtml"

\* the pieces a protected block is made of: a tag, and two texts that
\* String.prototype.replace reads as patterns when they stand in its
\* replacement string
ContentPieces == {"<meta>", "$$", "$&"}
Contents == UNION {[1..n -> ContentPieces] : n \in 0..MaxContent}

\* the templates step_6 can have left: each block absent, or present with
\* any content (the empty one included)
TemplatePool ==
  {<<"<html>", "<head>">> \o seo \o counters \o <<HeadClose, "<body>", "</body>", "</html>">> :
     seo \in {<<>>} \cup {<<SeoStart>> \o c \o <<SeoEnd>> : c \in Contents},
     counters \in {<<>>} \cup {<<CountersStart>> \o c \o <<CountersEnd>> : c \in Contents}}

\* what the model can answer to a prompt that holds the template cleaned
ReturnedPool(cleanedHtml) ==
  {cleanedHtml,
   <<FenceHtml, "\n">> \o cleanedHtml \o <<"\n", Fence>>,
   <<"<html>", "<head>", HeadClose, "<body>", "</body>", "</html>">>,
   <<"<html>", "<head>", SeoStart, "<link>", SeoEnd, CountersStart, CountersEnd,
     HeadClose, "<body>", "</body>", "</html>">>,
   <<"<html>", "<head>", SeoStart, CountersStart, CountersEnd, SeoEnd,
     HeadClose, "<body>", "</body>", "</html>">>,
   <<"<html>", "<head>", SeoStart, HeadClose, "<body>", "</body>", "</html>">>,
   <<"<html>", "<head>", CountersStart, HeadClose, "<body>", "</body>", "</html>">>,
   <<"<html>", "<head>", SeoEnd, SeoStart, HeadClose, "<body>", "</body>", "</html>">>,
   <<"<html>", "<HEAD>", "</HEAD>", "<body>", "</body>", "</html>">>,
   <<"<body>", "</body>">>,
   <<"Sorry">>}

\* html.match(/start[\s\S]*?end/): the leftmost start that an end follows,
\* up to the first end after it
NoMatch == [from |-> 0, to |-> 0]
FirstMatch(html, start, end) ==
  IF \E i \in 1..Len(html) : html[i] = start /\ \E j \in (i + 1)..Len(html) : html[j] = end
    THEN Only({[from |-> i,
                to |-> Only({j \in (i + 1)..Len(html) :
                               html[j] = end /\ \A k \in (i + 1)..(j - 1) : html[k] # end})] :
                 i \in {i \in 1..Len(html) :
                          html[i] = start /\ \A h \in 1..(i - 1) : html[h] # start}})
    ELSE NoMatch

\* the replacement string of String.prototype.replace as it is inserted:
\* $$ gives $, $& gives the matched text
RECURSIVE GetSubstitution(_, _)
GetSubstitution(replacement, matched) ==
  IF replacement = <<>>
    THEN <<>>
    ELSE (IF Head(replacement) = "$$" THEN <<"$">>
          ELSE IF Head(replacement) = "$&" THEN matched
          ELSE <<Head(replacement)>>)
         \o GetSubstitution(Tail(replacement), matched)

\* html with the pieces m.from..m.to replaced
Replaced(html, m, with) ==
  SubSeq(html, 1, m.from - 1) \o with \o SubSeq(html, m.to + 1, Len(html))

\* html.replace(/start[\s\S]*?end/, replacement)
ReplaceBlock(html, start, end, replacement) ==
  IF FirstMatch(html, start, end) = NoMatch
    THEN html
    ELSE Only({Replaced(html, m, GetSubstitution(replacement, SubSeq(html, m.from, m.to))) :
                 m \in {FirstMatch(html, start, end)}})

\* html.replace(piece, replacement), piece a string
ReplaceFirst(html, piece, replacement) ==
  IF \E i \in 1..Len(html) : html[i] = piece
    THEN Only({Replaced(html, [from |-> i, to |-> i], GetSubstitution(replacement, <<piece>>)) :
                 i \in {i \in 1..Len(html) :
                          html[i] = piece /\ \A h \in 1..(i - 1) : html[h] # piece}})
    ELSE html

\* one block of buildFillPrompt: the content saved and the html with the
\* block emptied
Protect(html, start, end) ==
  IF FirstMatch(html, start, end) = NoMatch
    THEN [saved |-> <<>>, cleanedHtml |-> html]
    ELSE Only({[saved |-> SubSeq(html, m.from + 1, m.to - 1),
                cleanedHtml |-> Replaced(html, m, <<start, end>>)] :
                 m \in {FirstMatch(html, start, end)}})

\* buildFillPrompt: of the prompt, the template it holds
BuildFillPrompt(canvasRawHtml) ==
  Only({Only({[prompt |-> counters.cleanedHtml,
               savedSeoBlock |-> seo.saved,
               savedCountersBlock |-> counters.saved] :
                counters \in {Protect(seo.cleanedHtml, CountersStart, CountersEnd)}}) :
          seo \in {Protect(canvasRawHtml, SeoStart, SeoEnd)}})

\* one block of restoreProtectedBlocks
RestoreBlock(result, saved, start, end) ==
  IF saved = <<>>
    THEN result
    ELSE IF Includes(result, <<start>>)
      THEN ReplaceBlock(result, start, end, <<start>> \o saved \o <<end>>)
      ELSE ReplaceFirst(result, HeadClose, <<start>> \o saved \o <<end, "\n", HeadClose>>)

RestoreProtectedBlocks(html, savedSeoBlock, savedCountersBlock) ==
  RestoreBlock(RestoreBlock(html, savedSeoBlock, SeoStart, SeoEnd),
               savedCountersBlock, CountersStart, CountersEnd)

\* fillData.content.replace(/^FENCEhtml?\s*\n?/i, '')
StripOpen(content) ==
  IF Len(content) > 0 /\ content[1] = FenceHtml
    THEN TrimStart(Tail(content))
    ELSE content

\* .replace(/\n?FENCE\s*$/i, '')
StripClose(content) ==
  IF Len(TrimEnd(content)) > 0 /\ TrimEnd(content)[Len(TrimEnd(content))] = Fence
    THEN Only({IF Len(t) > 0 /\ t[Len(t)] = "\n" THEN SubSeq(t, 1, Len(t) - 1) ELSE t :
                 t \in {SubSeq(TrimEnd(content), 1, Len(TrimEnd(content)) - 1)}})
    ELSE content

\* step_fill before buildFillPrompt
NoFill == [pc |-> "idle", template |-> <<>>, prompt |-> <<>>, savedSeoBlock |-> <<>>,
           savedCountersBlock |-> <<>>, returned |-> <<>>, result |-> <<>>]
FillIdle == fill = NoFill

----------------------------------------------------------------------------
(* The SSE registry of src/server.js.  Connections are numbered in the      *)
(* order of their requests; a connection records every res.write made on    *)
(* it.  log, opened and closedAt are kept for the properties only: the      *)
(* calls of emitSSE so far, and how many there were when the connection     *)
(* was registered and when its 'close' listener ran.                        *)

\* the project ids of the requests and of the runs
ProjectIds == {"p1", "p2"}
\* the one of them that projects.json holds
KnownIds == {"p1"}
\* the n-th call of emitSSE emits the n-th of these
EventNames == <<"step_start", "step_done", "pipeline_done", "pipeline_stopped">>

\* no connection yet, sseClients = new Map()
NoSse == [sseClients |-> <<>>, conns |-> <<>>, log |-> <<>>]
SseIdle == sse = NoSse

\* the connections res.write(payload) is called on get the payload
Written(conns, clients, payload) ==
  [c \in DOMAIN conns |->
     IF c \in clients THEN [conns[c] EXCEPT !.written = Append(@, payload)] ELSE conns[c]]

\* addSSEClient(projectId, res) for the connection c
AddSSEClient(s, projectId, c) ==
  [s EXCEPT !.sseClients =
     IF projectId \in DOMAIN @
       THEN [@ EXCEPT ![projectId] = @ \cup {c}]
       ELSE [p \in DOMAIN @ \cup {projectId} |-> IF p = projectId THEN {c} ELSE @[p]]]

\* the 'close' listener that addSSEClient gave the connection c
OnClose(s, projectId, c) ==
  IF projectId \in DOMAIN s.sseClients
    THEN IF s.sseClients[projectId] \ {c} = {}
           THEN [s EXCEPT !.sseClients = [p \in DOMAIN @ \ {projectId} |-> @[p]]]
           ELSE [s EXCEPT !.sseClients[projectId] = @ \ {c}]
    ELSE s

EmitSSE_everyproject(s, projectId, event) ==
  [s EXCEPT !.conns = Written(@, UNION {s.sseClients[p] : p \in DOMAIN s.sseClients},
                              [kind |-> "event", projectId |-> projectId, event |-> event])]

\* emitSSE(projectId, event, data)
EmitSSE(s, projectId, event) ==
  IF projectId \in DOMAIN s.sseClients
    THEN [s EXCEPT !.conns = Written(@, s.sseClients[projectId],
                                     [kind |-> "event", projectId |-> projectId, event |-> event])]
    ELSE s

----------------------------------------------------------------------------
(* Initial states and the calls on the tokenizer and on one BM25 instance *)

NoTerm == [idf |-> 0, tf |-> 0, docLen |-> 0, avgdl |-> [sum |-> 0, n |-> 1],
           k1 |-> [n |-> 3, d |-> 2], b |-> [n |-> 3, d |-> 4]]
NoCall == [domain |-> "", query |-> <<>>, maxResults |-> 0]

NoReasonIn == [category |-> <<>>, rules |-> <<>>]
NoReasonOut == [rule |-> 0, reasoning |-> EmptyMap]
NoSelectIn == [results |-> <<>>, priorityKeywords |-> <<>>, given |-> TRUE]
NoSelectOut == EmptyMap

NoGenIn == [query |-> <<>>, projectName |-> <<>>]
NoGenOut == [searches |-> <<>>, results |-> EmptyMap, selected |-> EmptyMap,
             best |-> EmptyMap, reasoning |-> EmptyMap, threw |-> FALSE,
             value |-> EmptyMap]

\* no design data loaded, generateDesignSystem not called
DesignIdle == loadLog = <<>> /\ ncalls = 0 /\ genIn = NoGenIn /\ genOut = NoGenOut

\* formatDesignSystemForPrompt not called
FormatIdle == prompt = <<>>

\* applyReasoning and selectBestMatch not called
ReasonIdle == reasonIn = NoReasonIn /\ reasonOut = NoReasonOut
SelectIdle == selectIn = NoSelectIn /\ selectOut = NoSelectOut

\* a new BM25 instance, nothing called yet, no design data loaded
Init ==
  /\ text = <<>>
  /\ tokens = <<>>
  /\ bm = NewBM25
  /\ fitted = <<>>
  /\ query = <<>>
  /\ ranked = <<>>
  /\ op = "new"
  /\ termIn = NoTerm
  /\ termOut = [at |-> 0, next |-> 0]
  /\ disk = EmptyMap
  /\ designDataCache = EmptyMap
  /\ call = NoCall
  /\ found = NoFound
  /\ ReasonIdle
  /\ SelectIdle
  /\ DesignIdle
  /\ FormatIdle
  /\ PipelineIdle
  /\ RetryIdle
  /\ WebIdle
  /\ FillIdle
  /\ SseIdle

\* as Init, with a text about to be tokenized
InitTokenizer ==
  /\ text \in TextPool
  /\ tokens = <<>>
  /\ bm = NewBM25
  /\ fitted = <<>>
  /\ query = <<>>
  /\ ranked = <<>>
  /\ op = "new"
  /\ termIn = NoTerm
  /\ termOut = [at |-> 0, next |-> 0]
  /\ disk = EmptyMap
  /\ designDataCache = EmptyMap
  /\ call = NoCall
  /\ found = NoFound
  /\ ReasonIdle
  /\ SelectIdle
  /\ DesignIdle
  /\ FormatIdle
  /\ PipelineIdle
  /\ RetryIdle
  /\ WebIdle
  /\ FillIdle
  /\ SseIdle

\* bm25.tokenize(text)
TokenizeCall ==
  /\ op = "new"
  /\ tokens' = Tokenize(text)
  /\ op' = "tokenize"
  /\ UNCHANGED <<text, bm, fitted, query, ranked, termIn, termOut,
                 disk, designDataCache, call, found,
                 reasonVars, selectVars, designVars, formatVars, pipelineVars, retryVars, webVars, fillVars, sseVars>>

\* bm25.fit(documents); it returns nothing
FitCall ==
  \E documents \in SeqsUpTo(DocPool, MaxDocs) :
    /\ bm' = Fit(bm, documents)
    /\ fitted' = documents
    /\ query' = <<>>
    /\ ranked' = <<>>
    /\ op' = "fit"
    /\ UNCHANGED <<text, tokens, termIn, termOut, disk, designDataCache, call, found,
                 reasonVars, selectVars, designVars, formatVars, pipelineVars, retryVars, webVars, fillVars, sseVars>>

\* bm25.score(q)
ScoreCall ==
  \E q \in QueryPool :
    /\ query' = q
    /\ ranked' = Score(bm, q)
    /\ op' = "score"
    /\ UNCHANGED <<text, tokens, bm, fitted, termIn, termOut,
                   disk, designDataCache, call, found,
                 reasonVars, selectVars, designVars, formatVars, pipelineVars, retryVars, webVars, fillVars, sseVars>>

\* this.idf[word] of a word held by df of N documents
IdfTable == [N \in 1..MaxDocs |-> [df \in 1..N |-> Idf(N, [str |-> FALSE, n |-> df]).v]]

\* the inputs of one term of the sum in score: a token held by df of N
\* documents, tf times in a document of docLen tokens
TermInputs ==
  UNION {
    {[idf |-> IdfTable[N][df], tf |-> tf, docLen |-> docLen,
      avgdl |-> [sum |-> docLen + others, n |-> N],
      k1 |-> [n |-> k1n, d |-> 2], b |-> [n |-> bn, d |-> 4]] :
        df \in 1..N, docLen \in (tf + 1)..(MaxTf + 1), others \in 0..(2 * (N - 1)),
        k1n \in {1, 3, 4}, bn \in 0..4} :
    N \in 1..MaxDocs, tf \in 0..MaxTf}

\* as Init, with the inputs of one term chosen
InitTerm ==
  /\ text = <<>>
  /\ tokens = <<>>
  /\ bm = NewBM25
  /\ fitted = <<>>
  /\ query = <<>>
  /\ ranked = <<>>
  /\ op = "new"
  /\ termIn \in TermInputs
  /\ termOut = [at |-> 0, next |-> 0]
  /\ disk = EmptyMap
  /\ designDataCache = EmptyMap
  /\ call = NoCall
  /\ found = NoFound
  /\ ReasonIdle
  /\ SelectIdle
  /\ DesignIdle
  /\ FormatIdle
  /\ PipelineIdle
  /\ RetryIdle
  /\ WebIdle
  /\ FillIdle
  /\ SseIdle

\* the term at the chosen term frequency and at the next one
TermCall ==
  /\ op = "new"
  /\ termOut' = [at |-> Term(termIn.idf, termIn.tf, termIn.docLen,
                             termIn.avgdl, termIn.k1, termIn.b),
                 next |-> Term(termIn.idf, termIn.tf + 1, termIn.docLen,
                               termIn.avgdl, termIn.k1, termIn.b)]
  /\ op' = "term"
  /\ UNCHANGED <<text, tokens, bm, fitted, query, ranked, termIn,
                 disk, designDataCache, call, found,
                 reasonVars, selectVars, designVars, formatVars, pipelineVars, retryVars, webVars, fillVars, sseVars>>

\* the inputs of one term for two documents with the same term frequency, one
\* of the corpus average length avgLen and a longer one, and two values b < b2
NormInputs ==
  UNION {
    {[idf |-> IdfTable[N][df], tf |-> tf, docLen |-> docLen,
      avgLen |-> avgLen, avgdl |-> [sum |-> avgLen * N, n |-> N],
      k1 |-> [n |-> k1n, d |-> 2], b |-> [n |-> bn, d |-> 4], b2 |-> [n |-> bn2, d |-> 4]] :
        df \in 1..N, tf \in 0..avgLen, k1n \in {1, 3, 4}, bn2 \in (bn + 1)..4,
        docLen \in {l \in (avgLen + 1)..(MaxTf + 1) : l <= avgLen * N}} :
    N \in 2..MaxDocs, avgLen \in 1..MaxTf, bn \in 0..3}

\* as Init, with the inputs of such a term chosen
InitNorm ==
  /\ text = <<>>
  /\ tokens = <<>>
  /\ bm = NewBM25
  /\ fitted = <<>>
  /\ query = <<>>
  /\ ranked = <<>>
  /\ op = "new"
  /\ termIn \in NormInputs
  /\ termOut = [at |-> 0, next |-> 0]
  /\ disk = EmptyMap
  /\ designDataCache = EmptyMap
  /\ call = NoCall
  /\ found = NoFound
  /\ ReasonIdle
  /\ SelectIdle
  /\ DesignIdle
  /\ FormatIdle
  /\ PipelineIdle
  /\ RetryIdle
  /\ WebIdle
  /\ FillIdle
  /\ SseIdle

\* the term for the longer and for the average-length document, at b and at b2
NormCall ==
  /\ op = "new"
  /\ termOut' =
       [at |-> Term(termIn.idf, termIn.tf, termIn.docLen, termIn.avgdl, termIn.k1, termIn.b),
        next |-> Term(termIn.idf, termIn.tf, termIn.docLen, termIn.avgdl, termIn.k1, termIn.b2),
        avgAt |-> Term(termIn.idf, termIn.tf, termIn.avgLen, termIn.avgdl, termIn.k1, termIn.b),
        avgNext |-> Term(termIn.idf, termIn.tf, termIn.avgLen, termIn.avgdl, termIn.k1, termIn.b2)]
  /\ op' = "norm"
  /\ UNCHANGED <<text, tokens, bm, fitted, query, ranked, termIn,
                 disk, designDataCache, call, found, reasonVars, selectVars, designVars, formatVars, pipelineVars, retryVars, webVars, fillVars, sseVars>>

\* as Init, with the design data deployed and the arguments of a call chosen
InitSearch ==
  /\ text = <<>>
  /\ tokens = <<>>
  /\ bm = NewBM25
  /\ fitted = <<>>
  /\ query = <<>>
  /\ ranked = <<>>
  /\ op = "new"
  /\ termIn = NoTerm
  /\ termOut = [at |-> 0, next |-> 0]
  /\ disk \in DiskPool
  /\ designDataCache = EmptyMap
  /\ call \in [domain : DomainPool, query : QueryPool, maxResults : 0..MaxResults]
  /\ found = NoFound
  /\ ReasonIdle
  /\ SelectIdle
  /\ DesignIdle
  /\ FormatIdle
  /\ PipelineIdle
  /\ RetryIdle
  /\ WebIdle
  /\ FillIdle
  /\ SseIdle

\* searchDesignCSV(call.domain, call.query, call.maxResults)
\* (for an inherited name config is a function without a file property:
\* designDataCache[undefined] is undefined and path.join(DESIGN_DATA_DIR,
\* undefined) throws a TypeError)
SearchCall ==
  /\ op = "new"
  /\ IF call.domain \in InheritedNames
       THEN /\ found' = [NoFound EXCEPT !.threw = TRUE]
            /\ UNCHANGED <<designDataCache, loadLog>>
     ELSE IF call.domain \notin DOMAIN DESIGN_CSV_CONFIG
       THEN /\ found' = NoFound
            /\ UNCHANGED <<designDataCache, loadLog>>
       ELSE LET config == DESIGN_CSV_CONFIG[call.domain]
                loaded == LoadDesignData(designDataCache, config.file)
            IN /\ designDataCache' = loaded.cache
               /\ loadLog' = Append(loadLog, LoadEvent(config.file, loaded))
               /\ found' = SearchData(config, loaded.data, call.query, call.maxResults)
  /\ op' = "search"
  /\ ncalls' = ncalls + 1
  /\ UNCHANGED <<text, tokens, bm, fitted, query, ranked, termIn, termOut, disk, call,
                 reasonVars, selectVars, genIn, genOut, formatVars, pipelineVars, retryVars, webVars, fillVars, sseVars>>

\* as Init, with the arguments of a call of applyReasoning chosen
InitReason ==
  /\ text = <<>>
  /\ tokens = <<>>
  /\ bm = NewBM25
  /\ fitted = <<>>
  /\ query = <<>>
  /\ ranked = <<>>
  /\ op = "new"
  /\ termIn = NoTerm
  /\ termOut = [at |-> 0, next |-> 0]
  /\ disk = EmptyMap
  /\ designDataCache = EmptyMap
  /\ call = NoCall
  /\ found = NoFound
  /\ reasonIn \in ReasonInputs
  /\ reasonOut = NoReasonOut
  /\ SelectIdle
  /\ DesignIdle
  /\ FormatIdle
  /\ PipelineIdle
  /\ RetryIdle
  /\ WebIdle
  /\ FillIdle
  /\ SseIdle

\* applyReasoning(reasonIn.category, reasonIn.rules)
ReasonCall ==
  /\ op = "new"
  /\ reasonOut' = ApplyReasoning(reasonIn.category, reasonIn.rules)
  /\ op' = "reason"
  /\ UNCHANGED <<text, tokens, bm, fitted, query, ranked, termIn, termOut,
                 disk, designDataCache, call, found, reasonIn, selectVars, designVars, formatVars, pipelineVars, retryVars, webVars, fillVars, sseVars>>

\* as Init: selectBestMatch not called yet
InitSelect ==
  /\ text = <<>>
  /\ tokens = <<>>
  /\ bm = NewBM25
  /\ fitted = <<>>
  /\ query = <<>>
  /\ ranked = <<>>
  /\ op = "new"
  /\ termIn = NoTerm
  /\ termOut = [at |-> 0, next |-> 0]
  /\ disk = EmptyMap
  /\ designDataCache = EmptyMap
  /\ call = NoCall
  /\ found = NoFound
  /\ ReasonIdle
  /\ SelectIdle
  /\ DesignIdle
  /\ FormatIdle
  /\ PipelineIdle
  /\ RetryIdle
  /\ WebIdle
  /\ FillIdle
  /\ SseIdle

\* selectBestMatch(r, pk), or selectBestMatch(r) when given is FALSE
SelectCall ==
  /\ op = "new"
  /\ \E r \in ResultLists :
       \E pk \in PriorityLists :
         \E given \in BOOLEAN :
           /\ given \/ pk = <<>>
           /\ selectIn' = [results |-> r, priorityKeywords |-> pk, given |-> given]
           /\ selectOut' = SelectBestMatch(r, pk, given)
  /\ op' = "select"
  /\ UNCHANGED <<text, tokens, bm, fitted, query, ranked, termIn, termOut,
                 disk, designDataCache, call, found, reasonVars, designVars, formatVars, pipelineVars, retryVars, webVars, fillVars, sseVars>>

\* as Init, with the design data and the rule table deployed
InitDesign ==
  /\ text = <<>>
  /\ tokens = <<>>
  /\ bm = NewBM25
  /\ fitted = <<>>
  /\ query = <<>>
  /\ ranked = <<>>
  /\ op = "new"
  /\ termIn = NoTerm
  /\ termOut = [at |-> 0, next |-> 0]
  /\ disk \in DesignDiskPool
  /\ designDataCache = EmptyMap
  /\ call = NoCall
  /\ found = NoFound
  /\ ReasonIdle
  /\ SelectIdle
  /\ DesignIdle
  /\ FormatIdle
  /\ PipelineIdle
  /\ RetryIdle
  /\ WebIdle
  /\ FillIdle
  /\ SseIdle

\* generateDesignSystem(q, projectName)
GenerateCall ==
  /\ op = "new"
  /\ \E q \in DesignQueryPool : \E projectName \in ProjectNamePool :
       \E out \in {GenerateDesignSystem(designDataCache, q, projectName)} :
          /\ genIn' = [query |-> q, projectName |-> projectName]
          /\ genOut' = [searches |-> out.searches, results |-> out.results,
                        selected |-> out.selected, best |-> out.best,
                        reasoning |-> out.reasoning, threw |-> out.threw,
                        value |-> out.value]
          /\ designDataCache' = out.cache
          /\ loadLog' = loadLog \o out.loads
  /\ ncalls' = ncalls + 1
  /\ op' = "generate"
  /\ UNCHANGED <<text, tokens, bm, fitted, query, ranked, termIn, termOut, disk, call,
                 found, reasonVars, selectVars, formatVars, pipelineVars, retryVars, webVars, fillVars, sseVars>>

NextTokenizer == TokenizeCall
SpecTokenizer == InitTokenizer /\ [][NextTokenizer]_vars

NextBM25 == FitCall \/ ScoreCall
SpecBM25 == Init /\ [][NextBM25]_vars

NextTerm == TermCall
SpecTerm == InitTerm /\ [][NextTerm]_vars

NextNorm == NormCall
SpecNorm == InitNorm /\ [][NextNorm]_vars

NextReason == ReasonCall
SpecReason == InitReason /\ [][NextReason]_vars

NextSelect == SelectCall
SpecSelect == InitSelect /\ [][NextSelect]_vars

\* a process with design data deployed and nothing loaded
InitCache ==
  /\ text = <<>>
  /\ tokens = <<>>
  /\ bm = NewBM25
  /\ fitted = <<>>
  /\ query = <<>>
  /\ ranked = <<>>
  /\ op = "new"
  /\ termIn = NoTerm
  /\ termOut = [at |-> 0, next |-> 0]
  /\ disk \in CacheDiskPool
  /\ designDataCache = EmptyMap
  /\ call = NoCall
  /\ found = NoFound
  /\ ReasonIdle
  /\ SelectIdle
  /\ DesignIdle
  /\ FormatIdle
  /\ PipelineIdle
  /\ RetryIdle
  /\ WebIdle
  /\ FillIdle
  /\ SseIdle

\* searchDesignCSV(domain, q, 3), at any time in the process
SearchNext ==
  /\ ncalls < MaxCalls
  /\ \E domain \in CacheDomainPool : \E q \in CacheQueryPool :
       \E out \in {SearchDesignCSV(designDataCache, domain, q, 3)} :
          /\ call' = [domain |-> domain, query |-> q, maxResults |-> 3]
          /\ found' = out.found
          /\ designDataCache' = out.cache
          /\ loadLog' = loadLog \o out.loads
  /\ ncalls' = ncalls + 1
  /\ op' = "search"
  /\ UNCHANGED <<text, tokens, bm, fitted, query, ranked, termIn, termOut, disk,
                 reasonVars, selectVars, genIn, genOut, formatVars, pipelineVars, retryVars, webVars, fillVars, sseVars>>

\* generateDesignSystem(q, ''), at any time in the process
GenerateNext ==
  /\ ncalls < MaxCalls
  /\ \E q \in CacheQueryPool :
       \E out \in {GenerateDesignSystem(designDataCache, q, <<>>)} :
          /\ genIn' = [query |-> q, projectName |-> <<>>]
          /\ genOut' = [searches |-> out.searches, results |-> out.results,
                        selected |-> out.selected, best |-> out.best,
                        reasoning |-> out.reasoning, threw |-> out.threw,
                        value |-> out.value]
          /\ designDataCache' = out.cache
          /\ loadLog' = loadLog \o out.loads
  /\ ncalls' = ncalls + 1
  /\ op' = "generate"
  /\ UNCHANGED <<text, tokens, bm, fitted, query, ranked, termIn, termOut, disk, call,
                 found, reasonVars, selectVars, formatVars, pipelineVars, retryVars, webVars, fillVars, sseVars>>

\* the files of public/design-data are replaced while the process runs
FilesReplaced ==
  /\ ncalls < MaxCalls
  /\ disk' \in CacheDiskPool \ {disk}
  /\ op' = "replace"
  /\ UNCHANGED <<text, tokens, bm, fitted, query, ranked, termIn, termOut,
                 designDataCache, call, found, reasonVars, selectVars, designVars, formatVars, pipelineVars, retryVars, webVars, fillVars, sseVars>>

NextCache == SearchNext \/ GenerateNext \/ FilesReplaced
SpecCache == InitCache /\ [][NextCache]_vars

\* formatDesignSystemForPrompt(ds) on the design system generated
FormatCall ==
  /\ op = "generate"
  /\ prompt' = FormatDesignSystemForPrompt(genOut.value)
  /\ op' = "format"
  /\ UNCHANGED <<text, tokens, bm, fitted, query, ranked, termIn, termOut, disk,
                 designDataCache, call, found, reasonVars, selectVars, designVars, pipelineVars, retryVars, webVars, fillVars, sseVars>>

\* a server with one project: new, or with a site an earlier process generated
InitPipeline ==
  /\ text = <<>>
  /\ tokens = <<>>
  /\ bm = NewBM25
  /\ fitted = <<>>
  /\ query = <<>>
  /\ ranked = <<>>
  /\ op = "new"
  /\ termIn = NoTerm
  /\ termOut = [at |-> 0, next |-> 0]
  /\ disk = [f \in AllFiles |-> <<>>]
  /\ designDataCache = EmptyMap
  /\ call = NoCall
  /\ found = NoFound
  /\ ReasonIdle
  /\ SelectIdle
  /\ DesignIdle
  /\ FormatIdle
  /\ \/ /\ project = NewProject
        /\ metaFile = NoMetaFile
        /\ htmlFile = NoHtml
     \/ /\ project = [NewProject EXCEPT !.status = "generated", !.currentStep = "step_6",
                                        !.pipelineStatus = "error"]
        /\ metaFile = [exists |-> TRUE, currentStep |-> "step_6",
                       out |-> [k \in MetaKeys |->
                                  IF k \in {"conversations", "grokCriteriaRaw", "grokAudienceRaw",
                                            "designSystemRaw", "compilerRawXml"}
                                    THEN MaxRuns + 1 ELSE 0]]
        /\ htmlFile = [exists |-> TRUE, by |-> MaxRuns + 1, step |-> "step_6"]
  /\ runningPipelines = 0
  /\ currentRun = "null"
  /\ runs = [r \in 1..MaxRuns |-> NewRun]
  /\ emitted = <<>>
  /\ request = NoRequest
  /\ res = 0
  /\ RetryIdle
  /\ WebIdle
  /\ FillIdle
  /\ SseIdle

\* the shared state after a stretch of code of run r; step_design calls
\* generateDesignSystem and formatDesignSystemForPrompt
Afterwards(r, w) ==
  /\ project' = w.project
  /\ metaFile' = w.metaFile
  /\ htmlFile' = w.htmlFile
  /\ runningPipelines' = w.registry
  /\ runs' = [runs EXCEPT ![r] = w.run]
  /\ emitted' = w.emitted
  /\ IF w.designed
       THEN \E out \in {GenerateDesignSystem(designDataCache, DesignQuery, Niche)} :
               /\ genIn' = [query |-> DesignQuery, projectName |-> Niche]
               /\ genOut' = [searches |-> out.searches, results |-> out.results,
                             selected |-> out.selected, best |-> out.best,
                             reasoning |-> out.reasoning, threw |-> out.threw,
                             value |-> out.value]
               /\ designDataCache' = out.cache
               /\ loadLog' = loadLog \o out.loads
               /\ ncalls' = ncalls + 1
               /\ prompt' = FormatDesignSystemForPrompt(out.value)
       ELSE UNCHANGED <<genIn, genOut, designDataCache, loadLog, ncalls, prompt>>

\* POST /api/projects/:id/pipeline/start, with runPipeline up to its first
\* await; a promise rejected before that is handled after the handler
Start(apiKey, startFrom) ==
  /\ request' = [kind |-> "start", apiKey |-> apiKey, startFrom |-> startFrom]
  /\ IF ~apiKey
       THEN /\ res' = 400
            /\ emitted' = <<>>
            /\ UNCHANGED <<project, metaFile, htmlFile, runningPipelines, runs,
                           designDataCache, designVars, formatVars>>
     ELSE IF ~project.exists
       THEN /\ res' = 404
            /\ emitted' = <<>>
            /\ UNCHANGED <<project, metaFile, htmlFile, runningPipelines, runs,
                           designDataCache, designVars, formatVars>>
     ELSE IF runningPipelines # 0
       THEN /\ res' = 409
            /\ emitted' = <<>>
            /\ UNCHANGED <<project, metaFile, htmlFile, runningPipelines, runs,
                           designDataCache, designVars, formatVars>>
     ELSE /\ \E r \in 1..MaxRuns : runs[r].pc = "new"
          /\ LET r == CHOOSE r \in 1..MaxRuns :
                        runs[r].pc = "new" /\ \A q \in 1..(r - 1) : runs[q].pc # "new"
                 run == StartedRun(startFrom)
                 w == [World(r, run) EXCEPT !.project.pipelineStatus = "running"]
                 begun == Begin(w, StepAfter(run.startIdx, 0))
             IN Afterwards(r, Settle([begun EXCEPT !.registry = r]))
          /\ res' = 200

\* the first start request for the project, from any step
FirstStart ==
  /\ \A r \in 1..MaxRuns : runs[r].pc = "new"
  /\ \E startFrom \in StartFromPool : Start(TRUE, startFrom)
  /\ op' = "start"
  /\ UNCHANGED <<text, tokens, bm, fitted, query, ranked, termIn, termOut, disk, call, found,
                 reasonVars, selectVars, currentRun, retryVars, webVars, fillVars, sseVars>>

\* a start request at any time, for the last steps
StartRequest ==
  /\ \E body \in {[apiKey |-> FALSE, startFrom |-> ""]}
                   \cup {[apiKey |-> TRUE, startFrom |-> f] : f \in LateStartFromPool} :
       Start(body.apiKey, body.startFrom)
  /\ op' = "start"
  /\ UNCHANGED <<text, tokens, bm, fitted, query, ranked, termIn, termOut, disk, call, found,
                 reasonVars, selectVars, currentRun, retryVars, webVars, fillVars, sseVars>>

\* the call a run awaits returns, and runPipeline goes on to its next await
\* or to its end, where the handlers of its promise run
CallReturns ==
  /\ \E r \in 1..MaxRuns :
       /\ runs[r].pc \in Awaiting
       /\ \E o \in Outcomes(runs[r].pc) :
            /\ Afterwards(r, Settle(Continue(World(r, runs[r]), o.ok, o.n)))
            /\ op' = IF o.ok THEN "return" ELSE "failed"
  /\ UNCHANGED <<text, tokens, bm, fitted, query, ranked, termIn, termOut, disk, call, found,
                 reasonVars, selectVars, currentRun, request, res, retryVars, webVars, fillVars, sseVars>>

\* POST /api/projects/:id/pipeline/stop, with stopPipeline()
StopRequest ==
  /\ request' = [NoRequest EXCEPT !.kind = "stop"]
  /\ IF runningPipelines = 0
       THEN /\ res' = 400
            /\ emitted' = <<>>
            /\ UNCHANGED <<project, runningPipelines, currentRun>>
       ELSE /\ currentRun' = "null"
            /\ runningPipelines' = 0
            /\ project' = IF project.exists
                            THEN [project EXCEPT !.pipelineStatus = "idle"]
                            ELSE project
            /\ emitted' = <<[event |-> "pipeline_stopped", step |-> "", run |-> 0,
                             metaStep |-> metaFile.currentStep,
                             projectStep |-> project.currentStep, html |-> htmlFile]>>
            /\ res' = 200
  /\ op' = "stop"
  /\ UNCHANGED <<text, tokens, bm, fitted, query, ranked, termIn, termOut, disk,
                 designDataCache, call, found, reasonVars, selectVars, designVars, formatVars,
                 metaFile, htmlFile, runs, retryVars, webVars, fillVars, sseVars>>

\* DELETE /api/projects/:id
DeleteRequest ==
  /\ request' = [NoRequest EXCEPT !.kind = "delete"]
  /\ IF ~project.exists
       THEN /\ res' = 404
            /\ UNCHANGED <<project, metaFile, htmlFile, runningPipelines, currentRun>>
       ELSE /\ currentRun' = "null"
            /\ runningPipelines' = 0
            /\ project' = NoProject
            /\ metaFile' = NoMetaFile
            /\ htmlFile' = NoHtml
            /\ res' = 200
  /\ emitted' = <<>>
  /\ op' = "delete"
  /\ UNCHANGED <<text, tokens, bm, fitted, query, ranked, termIn, termOut, disk,
                 designDataCache, call, found, reasonVars, selectVars, designVars, formatVars,
                 runs, retryVars, webVars, fillVars, sseVars>>

NextPipeline == FirstStart \/ CallReturns
SpecPipeline == InitPipeline /\ [][NextPipeline]_vars

NextServer == StartRequest \/ CallReturns \/ StopRequest \/ DeleteRequest
SpecServer == InitPipeline /\ [][NextServer]_vars

\* a process in which withRetry has not been called
InitRetry ==
  /\ text = <<>>
  /\ tokens = <<>>
  /\ bm = NewBM25
  /\ fitted = <<>>
  /\ query = <<>>
  /\ ranked = <<>>
  /\ op = "new"
  /\ termIn = NoTerm
  /\ termOut = [at |-> 0, next |-> 0]
  /\ disk = [f \in AllFiles |-> <<>>]
  /\ designDataCache = EmptyMap
  /\ call = NoCall
  /\ found = NoFound
  /\ ReasonIdle
  /\ SelectIdle
  /\ DesignIdle
  /\ FormatIdle
  /\ PipelineIdle
  /\ RetryIdle
  /\ WebIdle
  /\ FillIdle
  /\ SseIdle

\* withRetry(fn, { retries, baseDelay }) up to its first await
WithRetryCall ==
  /\ retry.pc = "idle"
  /\ \E retries \in 0..MaxRetries : \E baseDelay \in {1000, 2000} :
       retry' = Attempt([NoRetry EXCEPT !.retries = retries, !.baseDelay = baseDelay])
  /\ op' = "withRetry"
  /\ UNCHANGED <<text, tokens, bm, fitted, query, ranked, termIn, termOut, disk,
                 designDataCache, call, found, reasonVars, selectVars, designVars,
                 formatVars, pipelineVars, webVars, fillVars, sseVars>>

\* fn returns or throws, and withRetry runs to its end or to the await of
\* the delay
FnSettles ==
  /\ retry.pc = "fn"
  /\ \E outcome \in {[NoOutcome EXCEPT !.value = retry.called]}
                      \cup {[NoOutcome EXCEPT !.threw = TRUE, !.err = e] : e \in ErrorPool} :
       retry' = Settled(retry, outcome)
  /\ op' = "settle"
  /\ UNCHANGED <<text, tokens, bm, fitted, query, ranked, termIn, termOut, disk,
                 designDataCache, call, found, reasonVars, selectVars, designVars,
                 formatVars, pipelineVars, webVars, fillVars, sseVars>>

\* the timer of the delay fires: attempt++, and the loop goes on
TimerFires ==
  /\ retry.pc = "delay"
  /\ retry' = Attempt([retry EXCEPT !.attempt = @ + 1])
  /\ op' = "timer"
  /\ UNCHANGED <<text, tokens, bm, fitted, query, ranked, termIn, termOut, disk,
                 designDataCache, call, found, reasonVars, selectVars, designVars,
                 formatVars, pipelineVars, webVars, fillVars, sseVars>>

NextRetry == WithRetryCall \/ FnSettles \/ TimerFires
SpecRetry == InitRetry /\ [][NextRetry]_vars

\* a run about to begin step_8_web
InitWeb ==
  /\ text = <<>>
  /\ tokens = <<>>
  /\ bm = NewBM25
  /\ fitted = <<>>
  /\ query = <<>>
  /\ ranked = <<>>
  /\ op = "new"
  /\ termIn = NoTerm
  /\ termOut = [at |-> 0, next |-> 0]
  /\ disk = [f \in AllFiles |-> <<>>]
  /\ designDataCache = EmptyMap
  /\ call = NoCall
  /\ found = NoFound
  /\ ReasonIdle
  /\ SelectIdle
  /\ DesignIdle
  /\ FormatIdle
  /\ PipelineIdle
  /\ RetryIdle
  /\ WebIdle
  /\ FillIdle
  /\ SseIdle

\* step_8_web up to await Promise.all(workers)
WebStarts ==
  /\ web.pc = "idle"
  /\ \E in \in RatingsPool :
       web' = AllEnded(StartWorkers(
                [pc |-> "running", ratings |-> in.ratings,
                 rQueue |-> [i \in 1..Len(in.ratings) |-> i],
                 workers |-> [k \in 1..Workers(Len(in.ratings)) |-> 0],
                 fetches |-> [i \in 1..Len(in.ratings) |-> 0],
                 results |-> [i \in 1..Len(in.ratings) |-> "none"],
                 downloadedRatings |-> in.downloadedRatings], 1))
  /\ op' = "web"
  /\ UNCHANGED <<text, tokens, bm, fitted, query, ranked, termIn, termOut, disk,
                 designDataCache, call, found, reasonVars, selectVars, designVars,
                 formatVars, pipelineVars, retryVars, fillVars, sseVars>>

\* downloadSite returns to a worker, which goes on to its next download or
\* ends; Promise.all returns with the last worker
DownloadReturns ==
  /\ web.pc = "running"
  /\ \E k \in DOMAIN web.workers : \E ok \in BOOLEAN :
       /\ web.workers[k] # 0
       /\ web' = AllEnded(ProcessQueue(Downloaded(web, k, ok), k))
  /\ op' = "downloaded"
  /\ UNCHANGED <<text, tokens, bm, fitted, query, ranked, termIn, termOut, disk,
                 designDataCache, call, found, reasonVars, selectVars, designVars,
                 formatVars, pipelineVars, retryVars, fillVars, sseVars>>

NextWeb == WebStarts \/ DownloadReturns
SpecWeb == InitWeb /\ [][NextWeb]_vars

----------------------------------------------------------------------------
(* step_fill of runPipeline around its model call *)

InitFill ==
  /\ text = <<>>
  /\ tokens = <<>>
  /\ bm = NewBM25
  /\ fitted = <<>>
  /\ query = <<>>
  /\ ranked = <<>>
  /\ op = "new"
  /\ termIn = NoTerm
  /\ termOut = [at |-> 0, next |-> 0]
  /\ disk = [f \in AllFiles |-> <<>>]
  /\ designDataCache = EmptyMap
  /\ call = NoCall
  /\ found = NoFound
  /\ ReasonIdle
  /\ SelectIdle
  /\ DesignIdle
  /\ FormatIdle
  /\ PipelineIdle
  /\ RetryIdle
  /\ WebIdle
  /\ fill \in {[NoFill EXCEPT !.template = t] : t \in TemplatePool}
  /\ SseIdle

\* step_fill from buildFillPrompt to await callModel
FillAsks ==
  /\ fill.pc = "idle"
  /\ \E built \in {BuildFillPrompt(fill.template)} :
       fill' = [fill EXCEPT !.pc = "asked",
                            !.prompt = built.prompt,
                            !.savedSeoBlock = built.savedSeoBlock,
                            !.savedCountersBlock = built.savedCountersBlock]
  /\ op' = "buildFillPrompt"
  /\ UNCHANGED <<text, tokens, bm, fitted, query, ranked, termIn, termOut, disk,
                 designDataCache, call, found, reasonVars, selectVars, designVars,
                 formatVars, pipelineVars, retryVars, webVars, sseVars>>

\* callModel returns the model's HTML: step_fill up to writeProjectHtml
FillReturns ==
  /\ fill.pc = "asked"
  /\ \E content \in ReturnedPool(fill.prompt) :
       fill' = [fill EXCEPT !.pc = "restored",
                            !.returned = content,
                            !.result = RestoreProtectedBlocks(
                                         Trim(StripClose(StripOpen(content))),
                                         fill.savedSeoBlock, fill.savedCountersBlock)]
  /\ op' = "restoreProtectedBlocks"
  /\ UNCHANGED <<text, tokens, bm, fitted, query, ranked, termIn, termOut, disk,
                 designDataCache, call, found, reasonVars, selectVars, designVars,
                 formatVars, pipelineVars, retryVars, webVars, sseVars>>

NextFill == FillAsks \/ FillReturns
SpecFill == InitFill /\ [][NextFill]_vars

----------------------------------------------------------------------------
(* The requests for the event stream and the events *)

InitSse ==
  /\ text = <<>>
  /\ tokens = <<>>
  /\ bm = NewBM25
  /\ fitted = <<>>
  /\ query = <<>>
  /\ ranked = <<>>
  /\ op = "new"
  /\ termIn = NoTerm
  /\ termOut = [at |-> 0, next |-> 0]
  /\ disk = [f \in AllFiles |-> <<>>]
  /\ designDataCache = EmptyMap
  /\ call = NoCall
  /\ found = NoFound
  /\ ReasonIdle
  /\ SelectIdle
  /\ DesignIdle
  /\ FormatIdle
  /\ PipelineIdle
  /\ RetryIdle
  /\ WebIdle
  /\ FillIdle
  /\ SseIdle

\* GET /api/projects/:id/pipeline/events: the status is written when the
\* project is in projects.json, and the connection is registered
EventsRequest ==
  /\ Len(sse.conns) < MaxConns
  /\ \E projectId \in ProjectIds :
       sse' = AddSSEClient(
                [sse EXCEPT !.conns = Append(@,
                   [projectId |-> projectId, closed |-> FALSE,
                    written |-> IF projectId \in KnownIds THEN <<[kind |-> "status", projectId |-> projectId,
                                                 event |-> "status"]>>
                                         ELSE <<>>,
                    opened |-> Len(sse.log), closedAt |-> 0])],
                projectId, Len(sse.conns) + 1)
  /\ op' = "connect"
  /\ UNCHANGED <<text, tokens, bm, fitted, query, ranked, termIn, termOut, disk,
                 designDataCache, call, found, reasonVars, selectVars, designVars,
                 formatVars, pipelineVars, retryVars, webVars, fillVars>>

\* a connection closes: its 'close' listener runs
ConnectionCloses ==
  /\ \E c \in DOMAIN sse.conns :
       /\ ~sse.conns[c].closed
       /\ sse' = OnClose([sse EXCEPT !.conns[c].closed = TRUE,
                                     !.conns[c].closedAt = Len(sse.log)],
                         sse.conns[c].projectId, c)
  /\ op' = "close"
  /\ UNCHANGED <<text, tokens, bm, fitted, query, ranked, termIn, termOut, disk,
                 designDataCache, call, found, reasonVars, selectVars, designVars,
                 formatVars, pipelineVars, retryVars, webVars, fillVars>>

\* a call of emitSSE, by a run or by a request
EventEmitted ==
  /\ Len(sse.log) < MaxEvents
  /\ \E projectId \in ProjectIds : \E event \in {EventNames[Len(sse.log) + 1]} :
       sse' = EmitSSE([sse EXCEPT !.log = Append(@, [kind |-> "event", projectId |-> projectId,
                                                     event |-> event])],
                      projectId, event)
  /\ op' = "emitSSE"
  /\ UNCHANGED <<text, tokens, bm, fitted, query, ranked, termIn, termOut, disk,
                 designDataCache, call, found, reasonVars, selectVars, designVars,
                 formatVars, pipelineVars, retryVars, webVars, fillVars>>

NextSse == EventsRequest \/ ConnectionCloses \/ EventEmitted
SpecSse == InitSse /\ [][NextSse]_vars

NextDesign == GenerateCall \/ FormatCall
SpecDesign == InitDesign /\ [][NextDesign]_vars

NextSearch == SearchCall
SpecSearch == InitSearch /\ [][NextSearch]_vars

----------------------------------------------------------------------------
(* Properties of BM25.score and BM25.fit *)

\* the documents of the fitted corpus that hold a token of the last query
Matches(idx) == Range(bm.corpus[idx]) \cap Range(Tokenize(query)) # {}

Zero == Num(0)

\* C2: after fit on a non-empty corpus, score returns exactly one entry per
\* document: as many entries as documents, every index 0..|D|-1 exactly once.
C2_OneEntryPerDocument ==
  (op = "score" /\ Len(fitted) > 0) =>
    /\ Len(ranked) = Len(fitted)
    /\ \A i \in 0..(Len(fitted) - 1) :
         Cardinality({k \in DOMAIN ranked : ranked[k][1] = i}) = 1

C2_Witness ==
  op = "score" /\ Len(fitted) >= 2 /\ Len(ranked) >= 2 /\ ranked[1][1] # 0

\* C3: when no token of the query occurs in any document of the corpus,
\* every document's score is 0.
C3_NoOverlapScoresZero ==
  (op = "score" /\ \A idx \in DOMAIN bm.corpus : ~Matches(idx)) =>
    \A k \in DOMAIN ranked : ranked[k][2] = Zero

\* C4: a document's score is greater than 0 exactly when it holds a token of
\* the query, and every such document is ranked before every other document.
C4_PositiveIffMatch ==
  op = "score" =>
    /\ \A k \in DOMAIN ranked : Gt(ranked[k][2], Zero) <=> Matches(ranked[k][1] + 1)
    /\ \A k, l \in DOMAIN ranked :
         (Matches(ranked[k][1] + 1) /\ ~Matches(ranked[l][1] + 1)) => k < l

\* C5: score returns its entries in non-increasing order of score (no entry
\* has a smaller score than a later one) and drops no document, whatever its
\* score: the documents that score 0 are in the result.
C5_SortedNothingDropped ==
  op = "score" =>
    /\ \A k, l \in DOMAIN ranked : k < l => ~Lt(ranked[k][2], ranked[l][2])
    /\ \A idx \in DOMAIN bm.corpus :
         \E k \in DOMAIN ranked :
           /\ ranked[k][1] = idx - 1
           /\ ranked[k][2] = DocScore(bm, idx, Tokenize(query))

C5_Witness ==
  /\ op = "score"
  /\ \E k \in DOMAIN ranked : ranked[k][2] = Zero
  /\ \E k, l \in DOMAIN ranked :
       k < l /\ Gt(ranked[k][2], ranked[l][2]) /\ ranked[k][1] > ranked[l][1]

\* C6: the statistics of the index are those of a new index fitted with the
\* documents of the most recent fit; after a fit on an empty corpus they are
\* all empty or zero.
C6_StatisticsOfLastFit ==
  /\ bm = Fit(NewBM25, fitted)
  /\ Len(fitted) = 0 =>
       /\ bm.corpus = <<>> /\ bm.docLengths = <<>> /\ bm.avgdl.sum = 0
       /\ DOMAIN bm.docFreqs = {} /\ DOMAIN bm.idf = {}

\* C7: after a fit on an empty corpus score returns the empty sequence, for
\* every query, also when the instance was fitted with documents before.
C7_EmptyCorpusEmptyScores ==
  (op = "score" /\ Len(fitted) = 0) => ranked = <<>>

C7_Witness ==
  /\ op = "score" /\ Len(fitted) = 0
  /\ Len(bm.docLengths) > 0 /\ Range(Tokenize(query)) \cap DOMAIN bm.idf # {}

\* C9: after fit on N documents every vocabulary token has a document
\* frequency df with 1 <= df <= N, and its IDF is a number that is not negative.
C9_DocFreqAndIdfRange ==
  Len(fitted) > 0 =>
    \A w \in DOMAIN bm.docFreqs :
      /\ ~bm.docFreqs[w].str
      /\ 1 <= bm.docFreqs[w].n /\ bm.docFreqs[w].n <= bm.N
      /\ w \in DOMAIN bm.idf /\ ~bm.idf[w].nan /\ bm.idf[w].v >= 0

----------------------------------------------------------------------------
(* Properties of tokenize and of one term of the score *)

\* the places where a maximal run of word characters starts, and where it ends
RunStarts(s) ==
  {i \in 1..Len(s) : IsWordChar(s[i]) /\ (i = 1 \/ ~IsWordChar(s[i-1]))}
RunEnd(s, i) ==
  CHOOSE j \in i..Len(s) :
    /\ \A k \in i..j : IsWordChar(s[k])
    /\ j = Len(s) \/ ~IsWordChar(s[j+1])
LongRuns(s) == {i \in RunStarts(s) : RunEnd(s, i) - i + 1 > 2}
NthRun(s, n) == CHOOSE i \in LongRuns(s) : Cardinality({j \in LongRuns(s) : j < i}) = n - 1

\* C8: tokenize returns, in their order, the maximal runs of word characters
\* of the text that are longer than 2, in lower case (letters, digits and
\* underscores alike); white space alone, or nothing, gives no token.
C8_TokensAreLongWordRuns ==
  op = "tokenize" =>
    /\ Len(tokens) = Cardinality(LongRuns(text))
    /\ \A n \in 1..Len(tokens) :
         LET i == NthRun(text, n)
         IN tokens[n] = [k \in 1..(RunEnd(text, i) - i + 1) |-> ToLowerChar(text[i + k - 1])]
    /\ (\A i \in 1..Len(text) : IsSpaceChar(text[i])) => tokens = <<>>

C8_Witness ==
  /\ op = "tokenize" /\ Len(tokens) = 2
  /\ tokens[1] # tokens[2]
  /\ "Z" \in Range(text) /\ "-" \in Range(text)

\* C10: with everything else held fixed, a term of the score at term
\* frequency tf + 1 is not smaller than at tf.
C10_TermMonotoneInTf ==
  op = "term" => termOut.next >= termOut.at

C10_Witness ==
  op = "term" /\ termIn.tf >= 1 /\ termOut.next > termOut.at /\ termIn.b.n > 0

----------------------------------------------------------------------------
(* Properties of searchDesignCSV *)

\* the BM25 score of row idx (from 0) of the searched collection for the query
RowScore(idx) ==
  LET config == DESIGN_CSV_CONFIG[call.domain]
  IN DocScore(Fit(NewBM25, Documents(config, disk[config.file])), idx + 1,
              Tokenize(call.query))

\* C1: searchDesignCSV returns at most maxResults records, and every record
\* it returns comes from a document whose BM25 score for the query is > 0.
C1_AtMostMaxResultsAllPositive ==
  op = "search" =>
    /\ Len(found.results) <= call.maxResults
    /\ Len(found.from) = Len(found.results)
    /\ \A k \in DOMAIN found.from : Gt(RowScore(found.from[k]), Zero)

C1_Witness ==
  /\ op = "search"
  /\ call.maxResults >= 1 /\ Len(found.results) = call.maxResults
  /\ \E idx \in 0..(Len(disk[DESIGN_CSV_CONFIG[call.domain].file]) - 1) :
       /\ \A k \in DOMAIN found.from : found.from[k] # idx
       /\ Gt(RowScore(idx), Zero)

----------------------------------------------------------------------------
(* Length normalization *)

\* C11: for a document longer than the corpus average, a term of the score
\* at a larger b is not larger than at a smaller b, while the term of a
\* document of average length with the same term frequency is the same at both.
C11_LongerDocumentLosesWithB ==
  op = "norm" =>
    /\ termOut.avgNext = termOut.avgAt
    /\ termOut.next <= termOut.at

C11_Witness ==
  /\ op = "norm" /\ termIn.tf >= 1
  /\ termOut.next < termOut.at /\ termOut.avgAt > termOut.at

----------------------------------------------------------------------------
(* Search: names that are not collections, and the records returned *)

\* C12: for a collection name that is not one of style, color, landing,
\* product, typography, search returns the empty sequence, raises no error
\* and loads no data.
C12_UnknownCollectionEmptyNoError ==
  (op = "search" /\ call.domain \notin {"style", "color", "landing", "product", "typography"}) =>
    /\ found.results = <<>>
    /\ ~found.threw
    /\ designDataCache = EmptyMap

\* C13: every returned record has only fields of the collection's output
\* list, exactly those that are non-empty on the source row and with the
\* row's value, and the i-th record comes from the i-th ranked row.
C13_RecordsAreProjections ==
  (op = "search" /\ call.domain \in DOMAIN DESIGN_CSV_CONFIG) =>
    LET config == DESIGN_CSV_CONFIG[call.domain]
        rows == disk[config.file]
        outputCols == Range(config.outputCols)
    IN \A k \in 1..Len(found.results) :
         LET record == found.results[k]
             row == rows[found.ranked[k][1] + 1]
         IN /\ DOMAIN record \subseteq outputCols
            /\ \A col \in outputCols :
                 col \in DOMAIN record <=> (col \in DOMAIN row /\ row[col] # <<>>)
            /\ \A col \in DOMAIN record : record[col] = row[col]

\* two records returned, the first one not from the first row, one of them
\* from a row with an empty output field
C13_Witness ==
  /\ op = "search" /\ call.domain = "style"
  /\ Len(found.results) >= 2
  /\ found.from[1] # 0
  /\ \E k \in DOMAIN found.results :
       LET row == disk["styles.json"][found.from[k] + 1]
       IN "Type" \in DOMAIN row /\ row["Type"] = <<>> /\ "Type" \notin DOMAIN found.results[k]

----------------------------------------------------------------------------
(* Properties of findReasoningRule and applyReasoning *)

\* the rule applyReasoning was given by findReasoningRule
MatchedRule == reasonIn.rules[reasonOut.rule]

\* the positions of the rules whose category is the input category, verbatim
\* and ignoring case
VerbatimRules ==
  {i \in DOMAIN reasonIn.rules :
     /\ "UI_Category" \in DOMAIN reasonIn.rules[i]
     /\ reasonIn.rules[i]["UI_Category"] = reasonIn.category}
SameIgnoringCase ==
  {i \in DOMAIN reasonIn.rules :
     toLowerCase(Field(reasonIn.rules[i], "UI_Category")) = toLowerCase(reasonIn.category)}

\* C14 as stated: for an input category equal verbatim to the category of some
\* rule R of the table, findReasoningRule returns R (a rule equal to R); for
\* an empty table it returns none.
C14_VerbatimCategoryReturnsThatRule ==
  op = "reason" =>
    /\ \A i \in VerbatimRules : reasonOut.rule # 0 /\ MatchedRule = reasonIn.rules[i]
    /\ reasonIn.rules = <<>> => reasonOut.rule = 0

\* C14: for an input category equal verbatim to the category of some rule of
\* the table, findReasoningRule returns the first rule in table order whose
\* category equals the input ignoring case; for an empty table it returns none.
C14_VerbatimCategoryReturnsFirstIgnoringCase ==
  op = "reason" =>
    /\ VerbatimRules # {} =>
         /\ reasonOut.rule \in SameIgnoringCase
         /\ \A j \in SameIgnoringCase : reasonOut.rule <= j
    /\ reasonIn.rules = <<>> => reasonOut.rule = 0

\* a rule with the input's category verbatim, behind one that differs from it
\* in case only
C14_Witness ==
  /\ op = "reason"
  /\ \E i \in VerbatimRules : reasonOut.rule < i /\ reasonOut.rule \notin VerbatimRules
  /\ reasonOut.rule # 0

\* the first rule of the table that matches in a tier, 0 if none does
FirstIn(Tier(_, _)) ==
  LET hits == {i \in DOMAIN reasonIn.rules :
                 Tier(reasonIn.rules[i], toLowerCase(reasonIn.category))}
  IN IF hits = {} THEN 0 ELSE CHOOSE i \in hits : \A j \in hits : i <= j

\* C15: findReasoningRule tries exact, then substring (either direction), then
\* keyword match, each over the whole table and ignoring case: a substring
\* match is returned only if no rule matches exactly, a keyword match only if
\* none matches exactly or by substring, and within a tier the earliest rule
\* of the table is returned.
C15_TiersInOrderEarliestRule ==
  op = "reason" =>
    reasonOut.rule =
      IF FirstIn(ExactMatch) # 0 THEN FirstIn(ExactMatch)
      ELSE IF FirstIn(SubstringMatch) # 0 THEN FirstIn(SubstringMatch)
      ELSE FirstIn(KeywordMatch)

\* category "E-commerce / Retail" against a table whose second rule is
\* "retail" and whose first rule matches by keyword only
C15_Witness ==
  /\ op = "reason"
  /\ reasonIn.category = <<"E","-","c","o","m","m","e","r","c","e"," ","/"," ","R","e","t","a","i","l">>
  /\ Len(reasonIn.rules) = 2 /\ reasonOut.rule = 2
  /\ Field(reasonIn.rules[2], "UI_Category") = <<"r","e","t","a","i","l">>
  /\ KeywordMatch(reasonIn.rules[1], toLowerCase(reasonIn.category))
  /\ FirstIn(ExactMatch) = 0

\* some maximal run of characters of the rule's category (lower case) that are
\* no separators is a substring of the input category (lower case)
HasFragment(rule, IsSep(_)) ==
  LET uiCat == toLowerCase(Field(rule, "UI_Category"))
  IN \E i \in 1..Len(uiCat) : \E j \in i..Len(uiCat) :
       /\ \A k \in i..j : ~IsSep(uiCat[k])
       /\ i = 1 \/ IsSep(uiCat[i - 1])
       /\ j = Len(uiCat) \/ IsSep(uiCat[j + 1])
       /\ Includes(toLowerCase(reasonIn.category), SubSeq(uiCat, i, j))

IsSlashDash(c) == c \in {"/", "-"}
IsSlashDashSpace(c) == c \in {"/", "-"} \/ IsSpaceChar(c)

\* C16 as stated: when no rule matches exactly or by substring, a rule is
\* returned if and only if a non-empty fragment of its category, split on
\* '/' and '-', is a substring of the input category ignoring case; when no
\* rule qualifies in any tier none is returned.
C16_KeywordTierSplitsOnSlashDash ==
  (op = "reason" /\ FirstIn(ExactMatch) = 0 /\ FirstIn(SubstringMatch) = 0) =>
    /\ reasonOut.rule # 0 => HasFragment(MatchedRule, IsSlashDash)
    /\ reasonOut.rule = 0 =>
         \A i \in DOMAIN reasonIn.rules : ~HasFragment(reasonIn.rules[i], IsSlashDash)

\* C16: when no rule matches exactly or by substring, a rule is returned if
\* and only if a non-empty fragment of its category, split on '/', '-' and
\* white space, is a substring of the input category ignoring case; when no
\* rule qualifies in any tier none is returned.
C16_KeywordTierSplitsOnSlashDashSpace ==
  (op = "reason" /\ FirstIn(ExactMatch) = 0 /\ FirstIn(SubstringMatch) = 0) =>
    /\ reasonOut.rule # 0 => HasFragment(MatchedRule, IsSlashDashSpace)
    /\ reasonOut.rule = 0 =>
         \A i \in DOMAIN reasonIn.rules : ~HasFragment(reasonIn.rules[i], IsSlashDashSpace)

\* a rule returned for a word of its category that is only part of a
\* fragment cut at '/' and '-'
C16_Witness ==
  /\ op = "reason" /\ FirstIn(ExactMatch) = 0 /\ FirstIn(SubstringMatch) = 0
  /\ reasonOut.rule # 0
  /\ ~HasFragment(MatchedRule, IsSlashDash)

\* C17: when findReasoningRule finds no rule, applyReasoning returns the
\* fixed default record: pattern "Hero + Features + CTA", style priority
\* [Minimalism, Flat Design], color mood "Professional", severity "MEDIUM".
C17_NoRuleGivesDefault ==
  (op = "reason" /\ reasonOut.rule = 0) =>
    /\ reasonOut.reasoning.pattern = <<"H","e","r","o"," ","+"," ","F","e","a","t","u","r","e","s"," ","+"," ","C","T","A">>
    /\ reasonOut.reasoning.stylePriority = <<<<"M","i","n","i","m","a","l","i","s","m">>, <<"F","l","a","t"," ","D","e","s","i","g","n">>>>
    /\ reasonOut.reasoning.colorMood = <<"P","r","o","f","e","s","s","i","o","n","a","l">>
    /\ reasonOut.reasoning.severity = <<"M","E","D","I","U","M">>

\* a table with rules, none of which matches the category
C17_Witness ==
  /\ op = "reason" /\ reasonOut.rule = 0
  /\ Len(reasonIn.rules) = MaxRules /\ reasonIn.category # <<>>
  /\ reasonOut.reasoning.keyEffects # <<>>

\* the matched rule's style-priority string and its '+'-separated parts: where
\* a part starts, where it ends, and what is left of it without the white
\* space around it
PriorityText == Field(MatchedRule, "Style_Priority")
PartStarts == {i \in 1..(Len(PriorityText) + 1) : i = 1 \/ PriorityText[i - 1] = "+"}
PartEnd(i) ==
  CHOOSE j \in (i - 1)..Len(PriorityText) :
    /\ \A k \in i..j : PriorityText[k] # "+"
    /\ j = Len(PriorityText) \/ PriorityText[j + 1] = "+"
Inked(i) == {k \in i..PartEnd(i) : ~IsSpaceChar(PriorityText[k])}
Trimmed(i) ==
  SubSeq(PriorityText, CHOOSE a \in Inked(i) : \A k \in Inked(i) : a <= k,
                       CHOOSE z \in Inked(i) : \A k \in Inked(i) : z >= k)
KeptParts == {i \in PartStarts : Inked(i) # {}}
NthPart(n) == CHOOSE i \in KeptParts : Cardinality({j \in KeptParts : j < i}) = n - 1

\* C18: when a rule is found, the style-priority list is the '+'-separated
\* parts of the rule's style-priority string, each without the white space
\* around it, the empty ones dropped, in their order.
C18_StylePriorityParts ==
  (op = "reason" /\ reasonOut.rule # 0) =>
    /\ Len(reasonOut.reasoning.stylePriority) = Cardinality(KeptParts)
    /\ \A n \in 1..Cardinality(KeptParts) :
         reasonOut.reasoning.stylePriority[n] = Trimmed(NthPart(n))

\* two parts kept, one part dropped, white space removed at an end
C18_Witness ==
  /\ op = "reason" /\ reasonOut.rule # 0
  /\ Len(reasonOut.reasoning.stylePriority) = 2
  /\ Cardinality(PartStarts) > 2
  /\ \E i \in KeptParts : IsSpaceChar(PriorityText[PartEnd(i)])
  /\ \E n \in 1..2 : \E k \in 1..Len(reasonOut.reasoning.stylePriority[n]) :
       IsSpaceChar(reasonOut.reasoning.stylePriority[n][k])

\* the matched rule's decision-rules string is no JSON
Unparsable ==
  /\ Field(MatchedRule, "Decision_Rules") # <<>>
  /\ ~JSONParse(MatchedRule["Decision_Rules"]).ok

\* applyReasoning for the same arguments, the matched rule's decision-rules
\* string replaced by one that parses
WithParsableRules ==
  ApplyReasoning(reasonIn.category,
                 [reasonIn.rules EXCEPT ![reasonOut.rule] =
                    ("Decision_Rules" :> <<"{","\"","a","\"",":","1","}">>) @@ MatchedRule])

\* C19: when the matched rule's decision-rules string cannot be parsed,
\* applyReasoning returns an empty structure as decisionRules and every other
\* field of the record as it does when the string parses.
C19_UnparsableRulesGiveEmptyStructure ==
  (op = "reason" /\ reasonOut.rule # 0 /\ Unparsable) =>
    /\ reasonOut.reasoning.decisionRules = [type |-> "object", members |-> EmptyMap]
    /\ WithParsableRules.rule = reasonOut.rule
    /\ WithParsableRules.reasoning.decisionRules # reasonOut.reasoning.decisionRules
    /\ DOMAIN WithParsableRules.reasoning = DOMAIN reasonOut.reasoning
    /\ \A f \in DOMAIN reasonOut.reasoning \ {"decisionRules"} :
         WithParsableRules.reasoning[f] = reasonOut.reasoning[f]

C19_Witness ==
  /\ op = "reason" /\ reasonOut.rule # 0 /\ Unparsable
  /\ reasonOut.reasoning.pattern # <<>>
  /\ reasonOut.reasoning.stylePriority # <<>>

----------------------------------------------------------------------------
(* Properties of selectBestMatch *)

\* C20: selectBestMatch returns the empty record for an empty result list
\* whatever the priority list is, and results[0] for a non-empty result list
\* when the priority list is empty or absent.
C20_EmptyResultsAndNoPriorities ==
  op = "select" =>
    /\ selectIn.results = <<>> => selectOut = EmptyMap
    /\ (selectIn.results # <<>> /\ (~selectIn.given \/ selectIn.priorityKeywords = <<>>)) =>
         selectOut = selectIn.results[1]

\* several different results and no priority list
C20_Witness ==
  /\ op = "select"
  /\ ~selectIn.given
  /\ Len(selectIn.results) >= 2 /\ selectIn.results[1] # selectIn.results[2]
  /\ selectOut = selectIn.results[1]


\* the name of result i matches priority keyword p: one is a substring of the
\* other, ignoring case (the keyword without the white space around it, a
\* result without a name having the empty name)
NameMatches(p, i) ==
  LET keyword == Trim(toLowerCase(selectIn.priorityKeywords[p]))
      name == IF "Style Category" \in DOMAIN selectIn.results[i]
                THEN toLowerCase(selectIn.results[i]["Style Category"]) ELSE <<>>
  IN Includes(keyword, name) \/ Includes(name, keyword)

\* the priority keywords that match some result's name
MatchingKeywords ==
  {p \in DOMAIN selectIn.priorityKeywords : \E i \in DOMAIN selectIn.results : NameMatches(p, i)}

\* selectBestMatch was called with results and with priority keywords
BothPasses ==
  /\ op = "select" /\ selectIn.given
  /\ selectIn.results # <<>> /\ selectIn.priorityKeywords # <<>>

\* C21: for non-empty results and priorities, if some result's name matches
\* some priority keyword, selectBestMatch returns the first result, in result
\* order, that matches the earliest such keyword, in priority order.
C21_EarliestKeywordFirstResult ==
  (BothPasses /\ MatchingKeywords # {}) =>
    LET p == CHOOSE q \in MatchingKeywords : \A r \in MatchingKeywords : q <= r
        hits == {i \in DOMAIN selectIn.results : NameMatches(p, i)}
    IN selectOut = selectIn.results[CHOOSE i \in hits : \A j \in hits : i <= j]

\* the second result matches the first keyword, the first result only the
\* second keyword: the second result is returned
C21_Witness ==
  /\ BothPasses
  /\ Len(selectIn.results) >= 2 /\ Len(selectIn.priorityKeywords) >= 2
  /\ NameMatches(1, 2) /\ ~NameMatches(1, 1) /\ NameMatches(2, 1)
  /\ selectOut = selectIn.results[2] /\ selectOut # selectIn.results[1]

\* keyword p appears in the name, in the keyword tags, in the serialized
\* content of result i
InName(p, i) ==
  Includes(toLowerCase(Field(selectIn.results[i], "Style Category")),
           Trim(toLowerCase(selectIn.priorityKeywords[p])))
InTags(p, i) ==
  Includes(toLowerCase(Field(selectIn.results[i], "Keywords")),
           Trim(toLowerCase(selectIn.priorityKeywords[p])))
InContent(p, i) ==
  Includes(toLowerCase(Stringify(selectIn.results[i])),
           Trim(toLowerCase(selectIn.priorityKeywords[p])))

\* the score of result i over the keywords p.., every bonus whose condition
\* holds added
RECURSIVE EveryBonus(_, _)
EveryBonus(i, p) ==
  IF p > Len(selectIn.priorityKeywords) THEN 0
  ELSE (IF InName(p, i) THEN 10 ELSE 0) + (IF InTags(p, i) THEN 3 ELSE 0)
         + (IF InContent(p, i) THEN 1 ELSE 0) + EveryBonus(i, p + 1)

\* the score of result i over the keywords p.., only the first bonus whose
\* condition holds added
RECURSIVE FirstBonus(_, _)
FirstBonus(i, p) ==
  IF p > Len(selectIn.priorityKeywords) THEN 0
  ELSE (IF InName(p, i) THEN 10 ELSE IF InTags(p, i) THEN 3
        ELSE IF InContent(p, i) THEN 1 ELSE 0) + FirstBonus(i, p + 1)

\* C22 as stated: when no priority keyword matches a result's name, the
\* result returned has the highest score, a result gaining for every keyword
\* +10 if it is in its name, +3 if it is in its keyword tags and +1 if it is
\* in its serialized content, each bonus whose condition holds being added;
\* if the highest score is 0, results[0] is returned.
C22_HighestScoreEveryBonus ==
  (BothPasses /\ MatchingKeywords = {}) =>
    IF \A i \in DOMAIN selectIn.results : EveryBonus(i, 1) = 0
      THEN selectOut = selectIn.results[1]
      ELSE \E i \in DOMAIN selectIn.results :
             /\ selectOut = selectIn.results[i]
             /\ \A j \in DOMAIN selectIn.results : EveryBonus(j, 1) <= EveryBonus(i, 1)

\* C22: when no priority keyword matches a result's name, the result returned
\* is the earliest one with the highest score, a result gaining for every
\* keyword only the first bonus whose condition holds: +10 if it is in its
\* name, otherwise +3 if it is in its keyword tags, otherwise +1 if it is in
\* its serialized content; if the highest score is 0, results[0] is returned.
C22_HighestScoreFirstBonus ==
  (BothPasses /\ MatchingKeywords = {}) =>
    LET best == CHOOSE i \in DOMAIN selectIn.results :
                  \A j \in DOMAIN selectIn.results :
                    /\ FirstBonus(j, 1) <= FirstBonus(i, 1)
                    /\ FirstBonus(j, 1) = FirstBonus(i, 1) => i <= j
    IN selectOut = selectIn.results[IF FirstBonus(best, 1) = 0 THEN 1 ELSE best]

\* the first result is returned although the second one has a keyword in its
\* keyword tags and as many bonuses: the first one has none in its tags
C22_Witness ==
  /\ BothPasses /\ MatchingKeywords = {}
  /\ Len(selectIn.results) = 2
  /\ selectOut = selectIn.results[1] /\ selectOut # selectIn.results[2]
  /\ \E p \in DOMAIN selectIn.priorityKeywords : InTags(p, 2)
  /\ \A p \in DOMAIN selectIn.priorityKeywords : ~InTags(p, 1)
  /\ FirstBonus(1, 1) = FirstBonus(2, 1) /\ FirstBonus(1, 1) > 0

----------------------------------------------------------------------------
(* Properties of generateDesignSystem *)

\* every file of the deployment is loaded and holds nothing
AllEmpty == \A f \in AllFiles : disk[f] = <<>>

\* C23: generateDesignSystem raises no error for any query and project name
\* when every collection and the rule table are empty; whenever the color
\* search returns nothing, colors.primary is "#2563EB", and whenever the
\* product search returns nothing, the category is "General".
C23_NoErrorAndDefaults ==
  op = "generate" =>
    /\ AllEmpty => ~genOut.threw /\ genOut.value # EmptyMap
    /\ genOut.results.color = <<>> => genOut.value.colors.primary = <<"#","2","5","6","3","E","B">>
    /\ genOut.results.product = <<>> => genOut.value.category = <<"G","e","n","e","r","a","l">>

C23_Witness ==
  /\ op = "generate"
  /\ AllEmpty
  /\ genIn.query = <<"d","a","s","h","b","o","a","r","d">> /\ genIn.projectName = <<>>
  /\ ~genOut.threw
  /\ genOut.value.colors.primary = <<"#","2","5","6","3","E","B">>
  /\ genOut.value.category = <<"G","e","n","e","r","a","l">>

\* the value a leaf takes when the column it is read from is missing
Fallback(row, col, leaf, default) == Field(row, col) = <<>> => leaf = default

\* C24 as stated: a leaf whose source field is missing takes a fixed value;
\* pattern.name is "Hero + Features + CTA" whenever the landing search gives no
\* pattern name, and typography.heading is "Inter" whenever the typography
\* search gives no heading font.
C24_FixedFallbacks ==
  op = "generate" =>
    /\ Fallback(genOut.best.landing, "Pattern Name", genOut.value.pattern.name,
                <<"H","e","r","o"," ","+"," ","F","e","a","t","u","r","e","s"," ","+"," ","C","T","A">>)
    /\ Fallback(genOut.best.typography, "Heading Font", genOut.value.typography.heading,
                <<"I","n","t","e","r">>)

\* C24: a leaf whose source field is missing takes a fixed value, except
\* pattern.name, typography.mood and keyEffects, which take the matched
\* reasoning's pattern, typography mood and key effects first, and
\* projectName, which takes the upper-cased query; pattern.name is
\* "Hero + Features + CTA" only when the reasoning has no pattern either, and
\* typography.heading is "Inter" whenever there is no heading font.
C24_FallbacksAfterReasoning ==
  op = "generate" =>
    LET v == genOut.value
        b == genOut.best
        r == genOut.reasoning
    IN /\ Fallback(b.landing, "Pattern Name", v.pattern.name,
                   IF r.pattern # <<>> THEN r.pattern ELSE <<"H","e","r","o"," ","+"," ","F","e","a","t","u","r","e","s"," ","+"," ","C","T","A">>)
       /\ Fallback(b.landing, "Section Order", v.pattern.sections, <<"H","e","r","o"," ",">"," ","F","e","a","t","u","r","e","s"," ",">"," ","C","T","A">>)
       /\ Fallback(b.landing, "Primary CTA Placement", v.pattern.ctaPlacement, <<"A","b","o","v","e"," ","f","o","l","d">>)
       /\ Fallback(b.landing, "Color Strategy", v.pattern.colorStrategy, <<>>)
       /\ Fallback(b.landing, "Conversion Optimization", v.pattern.conversion, <<>>)
       /\ Fallback(b.style, "Style Category", v.style.name, <<"M","i","n","i","m","a","l","i","s","m">>)
       /\ Fallback(b.style, "Type", v.style.type, <<"G","e","n","e","r","a","l">>)
       /\ Fallback(b.style, "Effects & Animation", v.style.effects, <<>>)
       /\ Fallback(b.style, "Effects & Animation", v.keyEffects, r.keyEffects)
       /\ Fallback(b.style, "Keywords", v.style.keywords, <<>>)
       /\ Fallback(b.style, "Best For", v.style.bestFor, <<>>)
       /\ Fallback(b.style, "Performance", v.style.performance, <<>>)
       /\ Fallback(b.style, "Accessibility", v.style.accessibility, <<>>)
       /\ Fallback(b.color, "Primary (Hex)", v.colors.primary, <<"#","2","5","6","3","E","B">>)
       /\ Fallback(b.color, "Secondary (Hex)", v.colors.secondary, <<"#","3","B","8","2","F","6">>)
       /\ Fallback(b.color, "CTA (Hex)", v.colors.cta, <<"#","F","9","7","3","1","6">>)
       /\ Fallback(b.color, "Background (Hex)", v.colors.background, <<"#","F","8","F","A","F","C">>)
       /\ Fallback(b.color, "Text (Hex)", v.colors.text, <<"#","1","E","2","9","3","B">>)
       /\ Fallback(b.color, "Notes", v.colors.notes, <<>>)
       /\ Fallback(b.typography, "Heading Font", v.typography.heading, <<"I","n","t","e","r">>)
       /\ Fallback(b.typography, "Body Font", v.typography.body, <<"I","n","t","e","r">>)
       /\ Fallback(b.typography, "Mood/Style Keywords", v.typography.mood, r.typographyMood)
       /\ Fallback(b.typography, "Best For", v.typography.bestFor, <<>>)
       /\ Fallback(b.typography, "Google Fonts URL", v.typography.googleFontsUrl, <<>>)
       /\ Fallback(b.typography, "CSS Import", v.typography.cssImport, <<>>)
       /\ genIn.projectName = <<>> => v.projectName = toUpperCase(genIn.query)

C24_Witness ==
  /\ op = "generate"
  /\ genOut.results.landing # <<>>
  /\ Field(genOut.best.landing, "Pattern Name") = <<>>
  /\ genOut.value.pattern.name = <<"F","u","n","n","e","l">>
  /\ Field(genOut.best.typography, "Heading Font") = <<>>
  /\ genOut.value.typography.heading = <<"I","n","t","e","r">>
  /\ genOut.value.typography.mood = <<"B","o","l","d">>

\* the query followed by the first two of the priorities
WithFirstTwo(q, priorities) ==
  IF Len(priorities) = 0 THEN q
  ELSE IF Len(priorities) = 1 THEN q \o <<" ">> \o priorities[1]
  ELSE q \o <<" ">> \o priorities[1] \o <<" ">> \o priorities[2]

\* the searches of generateDesignSystem after the product search
SearchesAfterProduct ==
  {[domain |-> genOut.searches[k].domain, query |-> genOut.searches[k].query,
    maxResults |-> genOut.searches[k].maxResults] : k \in 2..Len(genOut.searches)}

\* C25: the style collection is searched with the query followed by the first
\* two style priorities of the reasoning (the query alone without priorities),
\* keeping at most 3 results; color, landing and typography are searched with
\* the query alone, keeping at most 2 results each; selectBestMatch is given
\* the style results only, and the first result of each other search is taken.
C25_SearchesOfGenerate ==
  op = "generate" =>
    LET q == genIn.query
        got == genOut.results
    IN /\ SearchesAfterProduct =
            {[domain |-> "style", maxResults |-> 3,
              query |-> WithFirstTwo(q, genOut.reasoning.stylePriority)],
             [domain |-> "color", query |-> q, maxResults |-> 2],
             [domain |-> "landing", query |-> q, maxResults |-> 2],
             [domain |-> "typography", query |-> q, maxResults |-> 2]}
       /\ Len(got.style) <= 3
       /\ \A d \in {"color", "landing", "typography"} : Len(got[d]) <= 2
       /\ genOut.selected.results = got.style
       /\ genOut.best.style =
            SelectBestMatch(got.style, genOut.reasoning.stylePriority, TRUE)
       /\ \A d \in {"color", "landing", "typography"} :
            genOut.best[d] = IF got[d] = <<>> THEN EmptyMap ELSE got[d][1]

C25_Witness ==
  /\ op = "generate"
  /\ Len(genOut.reasoning.stylePriority) = 3
  /\ Len(disk["styles.json"]) = 4
  /\ Len(genOut.results.style) = 3
  /\ Len(genOut.results.color) = 2
  /\ Len(genOut.results.typography) = 2
  /\ genOut.best.style # genOut.results.style[1]

----------------------------------------------------------------------------
(* Properties of the design data cache *)

\* the calls of loadDesignData for one file, in order
LoadsOf(f) == SelectSeq(loadLog, LAMBDA e : e.file = f)

\* C26: across the calls of one process each file is read at most once, by
\* the first call that needs it; every later call gets the document set of
\* that first load, and the cache entry holds it ever after.
C26_ReadOnceThenCached ==
  \A f \in AllFiles :
    LET loads == LoadsOf(f)
    IN /\ f \in DOMAIN designDataCache <=> loads # <<>>
       /\ \A k \in DOMAIN loads :
            /\ loads[k].read <=> k = 1
            /\ loads[k].data = loads[1].data
            /\ designDataCache[f] = loads[1].data

C26_Witness ==
  \E f \in Files :
    /\ Len(LoadsOf(f)) >= 2
    /\ LoadsOf(f)[1].data # <<>>
    /\ disk[f] # designDataCache[f]
    /\ op = "generate"

\* the cache entries of a state are those of the next one
CacheKept ==
  \A f \in DOMAIN designDataCache :
    f \in DOMAIN designDataCache' /\ designDataCache'[f] = designDataCache[f]

\* a new cache entry holds the file as it is in storage
CachePopulated ==
  \A f \in DOMAIN designDataCache' \ DOMAIN designDataCache :
    designDataCache'[f] = disk[f]

\* what a search on a new index returns for the last call
OnNewIndex ==
  IF call'.domain \in DOMAIN DESIGN_CSV_CONFIG
    THEN LET config == DESIGN_CSV_CONFIG[call'.domain]
         IN SearchData(config, designDataCache'[config.file], call'.query,
                       call'.maxResults)
    ELSE NoFound

\* C27: a call of searchDesignCSV or generateDesignSystem changes neither the
\* files, nor an existing cache entry (the rule table included), nor the
\* BM25 instance of another caller, nor the result list given to
\* selectBestMatch; it only adds the cache entries that were missing, and a
\* search returns what a new index over the cached rows returns.
C27_CallsOnlyPopulateCache ==
  [][ncalls' = ncalls + 1 =>
       /\ disk' = disk
       /\ bm' = bm
       /\ CacheKept
       /\ CachePopulated
       /\ op' = "search" => found' = OnNewIndex
       /\ op' = "generate" => genOut'.selected.results = genOut'.results.style]_vars

C27_Witness ==
  /\ op = "search"
  /\ ncalls = MaxCalls
  /\ genOut.results # EmptyMap
  /\ Len(found.ranked) = 3
  /\ found.ranked[1][1] # 0
  /\ designDataCache["styles.json"] = Pick(DesignRows, {1, 2, 3})

----------------------------------------------------------------------------
(* Properties of formatDesignSystemForPrompt *)

\* the leaves of a design system, the anti-patterns by their parts
Leaves(ds) ==
  {ds.projectName, ds.category, ds.keyEffects, ds.severity}
    \cup {ds.pattern[k] : k \in DOMAIN ds.pattern}
    \cup {ds.style[k] : k \in DOMAIN ds.style}
    \cup {ds.colors[k] : k \in DOMAIN ds.colors}
    \cup {ds.typography[k] : k \in DOMAIN ds.typography}
    \cup {Trim(SplitPlus(ds.antiPatterns)[k]) : k \in DOMAIN SplitPlus(ds.antiPatterns)}

\* the value is in a line of the text
Appears(value) == \E k \in DOMAIN prompt : Includes(prompt[k], value)

\* the line is a label with nothing after it
BlankLabel(line) == Len(line) >= 2 /\ SubSeq(line, Len(line) - 1, Len(line)) = <<":", " ">>

\* C28: in the text formatDesignSystemForPrompt returns, every populated
\* field of the design system appears, and no line is a label followed by
\* an empty value.
C28_PopulatedAppearEmptyOmitted ==
  op = "format" =>
    /\ \A value \in Leaves(genOut.value) : value # <<>> => Appears(value)
    /\ \A k \in DOMAIN prompt : ~BlankLabel(prompt[k])

----------------------------------------------------------------------------
(* Properties of runPipeline and of the pipeline endpoints *)

\* C29: when a step emits step_done, the meta file and the project record
\* both hold the step's id as currentStep, and for step_6 and step_fill the
\* HTML file holds the HTML the step produced.
C29_StepDoneAfterPersist ==
  \A k \in DOMAIN emitted :
    emitted[k].event = "step_done" =>
      /\ emitted[k].metaStep = emitted[k].step
      /\ emitted[k].projectStep = emitted[k].step
      /\ emitted[k].step \in {"step_6", "step_fill"} =>
           emitted[k].html = [exists |-> TRUE, by |-> emitted[k].run, step |-> emitted[k].step]

\* the run is between its start and the settling of its promise
Executing(r) == runs[r].pc \in Awaiting

\* C30: at most one execution of runPipeline is in progress for the project,
\* and a start request that finds one in progress is answered 409 and starts
\* nothing.
C30_OneRunAndConflict ==
  /\ [](Cardinality({r \in 1..MaxRuns : Executing(r)}) <= 1)
  /\ [][(op' = "start" /\ request'.apiKey /\ project.exists
           /\ \E r \in 1..MaxRuns : Executing(r))
          => (res' = 409 /\ runs' = runs)]_vars

\* the last request the server answered is a stop request that succeeded
StoppedLast == request.kind = "stop" /\ res = 200

\* C31: after a stop request that succeeded, and until the next request, no
\* run goes on (no run changes position, no step event is emitted, nothing
\* is written to the project record, the meta file or the HTML file), and
\* the project's pipelineStatus is 'idle'.
C31_StoppedRunDoesNothing ==
  /\ []((StoppedLast /\ project.exists) => project.pipelineStatus = "idle")
  /\ [][(StoppedLast /\ request' = request)
          => /\ runs' = runs
             /\ project' = project
             /\ metaFile' = metaFile
             /\ htmlFile' = htmlFile
             /\ \A k \in DOMAIN emitted' :
                  emitted'[k].event \notin {"step_start", "step_progress", "step_done"}]_vars

\* the steps the run has started, in order
Started(r) ==
  LET RECURSIVE Of(_)
      Of(n) == IF n = 0 THEN <<>>
               ELSE IF runs[r].log[n].event = "step_start"
                 THEN Append(Of(n - 1), runs[r].log[n].step)
               ELSE Of(n - 1)
  IN Of(Len(runs[r].log))

\* the steps from startFrom to the end of PIPELINE_STEPS, all of them when
\* startFrom is absent or is not a step id
FromStep(startFrom) ==
  IF \E i \in DOMAIN PIPELINE_STEPS : PIPELINE_STEPS[i] = startFrom
    THEN SubSeq(PIPELINE_STEPS, CHOOSE i \in DOMAIN PIPELINE_STEPS : PIPELINE_STEPS[i] = startFrom,
                Len(PIPELINE_STEPS))
    ELSE PIPELINE_STEPS

\* C32: a run started with startFrom starts the steps from startFrom to the
\* end of PIPELINE_STEPS, in list order, and no other: at any time the steps
\* it has started are the first of these, and all of them when it returns.
C32_StepsFromStartFrom ==
  \A r \in 1..MaxRuns :
    runs[r].pc # "new" =>
      /\ Len(Started(r)) <= Len(FromStep(runs[r].startFrom))
      /\ Started(r) = SubSeq(FromStep(runs[r].startFrom), 1, Len(Started(r)))
      /\ runs[r].pc = "resolved" => Started(r) = FromStep(runs[r].startFrom)

\* C33: once a delete request has succeeded, the project's record, its meta
\* file and its HTML file do not exist, and none of them is created again.
C33_DeletedStaysDeleted ==
  /\ [](~project.exists => (~metaFile.exists /\ ~htmlFile.exists))
  /\ [][~project.exists => ~project'.exists]_vars

\* the pipeline_done and pipeline_error events the run has emitted
Endings(r) ==
  {k \in DOMAIN runs[r].log : runs[r].log[k].event \in {"pipeline_done", "pipeline_error"}}

\* the run has finished: the handlers of its promise have run
Finished(r) == runs[r].pc \in {"resolved", "rejected"}

\* C34: while a run started by a start request executes, the registry holds
\* an entry for the project and pipelineStatus is 'running'; the run emits
\* pipeline_done or pipeline_error only as it finishes, exactly one of them,
\* and as it finishes pipelineStatus becomes 'done' or 'error' accordingly
\* and the registry holds no entry for the project.
C34_RunningUntilSettled ==
  /\ [](\A r \in 1..MaxRuns :
          /\ Executing(r) => /\ runningPipelines # 0
                             /\ project.exists
                             /\ project.pipelineStatus = "running"
          /\ ~Finished(r) => Endings(r) = {}
          /\ Finished(r) =>
               /\ Cardinality(Endings(r)) = 1
               /\ \A k \in Endings(r) :
                    runs[r].log[k].event =
                      (IF runs[r].pc = "resolved" THEN "pipeline_done" ELSE "pipeline_error"))
  /\ [][\A r \in 1..MaxRuns :
          (~Finished(r) /\ Finished(r)') =>
            /\ runningPipelines' = 0
            /\ project'.exists
            /\ project'.pipelineStatus =
                 (IF runs'[r].pc = "resolved" THEN "done" ELSE "error")]_vars

\* the steps that throw when their model call returns an error
ErrSteps == {"step_3", "step_4", "step_5", "step_6", "step_7", "step_fill"}

\* the call the run awaits at one of these steps returns an error
Fails(r) == op' = "failed" /\ runs[r].pc \in ErrSteps /\ runs'[r] # runs[r]

\* C35: when the model call of step_3, step_4, step_5, step_6, step_7 or
\* step_fill returns an error, the run fails at that step: the step had
\* started and emits no step_done, the run emits pipeline_error and nothing
\* else, the meta file and the HTML file stay as they were, and the run does
\* nothing afterwards.
C35_ErrorFailsTheStep ==
  /\ [][\A r \in 1..MaxRuns :
          Fails(r) =>
            /\ runs[r].log[Len(runs[r].log)] = [event |-> "step_start", step |-> runs[r].pc]
            /\ runs'[r].pc = "rejected"
            /\ runs'[r].log = Append(runs[r].log, [event |-> "pipeline_error", step |-> ""])
            /\ metaFile' = metaFile
            /\ htmlFile' = htmlFile]_vars
  /\ [][\A r \in 1..MaxRuns : Finished(r) => runs'[r] = runs[r]]_vars

\* the model call of step_6 returned an error after the earlier steps had
\* written the meta file
C35_Witness ==
  /\ op = "failed"
  /\ \E r \in 1..MaxRuns :
       /\ runs[r].pc = "rejected"
       /\ Len(runs[r].log) >= 2
       /\ runs[r].log[Len(runs[r].log) - 1] = [event |-> "step_start", step |-> "step_6"]
       /\ metaFile.exists
       /\ metaFile.currentStep = "step_5"
       /\ metaFile.out["compilerRawXml"] = r

----------------------------------------------------------------------------
(* Properties of withRetry *)

\* the k-th call of fn threw a network-classified error
NetworkThrow(k) == retry.outcomes[k].threw /\ IsNetworkError(retry.outcomes[k].err)

\* C36: withRetry calls fn at most retries + 1 times; it calls fn again only
\* after a call threw a network-classified error; it returns the result of
\* the first call that does not throw; it rethrows an error that is not
\* network-classified and the error of call retries + 1, and makes no call
\* after that.
C36_RetryOnlyNetworkErrors ==
  /\ [](/\ retry.called <= retry.retries + 1
        /\ \A k \in 1..(retry.called - 1) : NetworkThrow(k)
        /\ \A k \in DOMAIN retry.outcomes :
             ~retry.outcomes[k].threw =>
               /\ retry.pc = "returned"
               /\ retry.result = retry.outcomes[k]
               /\ retry.result.value = k
               /\ k = retry.called
        /\ \A k \in DOMAIN retry.outcomes :
             (retry.outcomes[k].threw /\ (~NetworkThrow(k) \/ k = retry.retries + 1)) =>
               /\ retry.pc = "threw"
               /\ retry.result = retry.outcomes[k]
               /\ k = retry.called
        /\ retry.pc = "returned" => (retry.called > 0 /\ ~retry.outcomes[retry.called].threw)
        /\ retry.pc = "threw" => (retry.called > 0 /\ retry.outcomes[retry.called].threw))
  /\ [][retry.pc \in {"returned", "threw"} => retry' = retry]_vars

\* the last of retries + 1 calls threw a network-classified error, after
\* two that did, and withRetry rethrew it
C36_Witness ==
  /\ retry.pc = "threw"
  /\ retry.retries = 2
  /\ retry.called = 3
  /\ NetworkThrow(3)
  /\ retry.outcomes[1].err # retry.outcomes[2].err
  /\ retry.delays = <<retry.baseDelay, 2 * retry.baseDelay>>

----------------------------------------------------------------------------
(* Properties of step_8_web *)

\* the ratings whose download has begun and has not returned
InFlight == {i \in DOMAIN web.ratings : web.fetches[i] > 0 /\ web.results[i] = "none"}

\* C37: during step_8_web at most 5 downloads are in flight, no rating is
\* downloaded twice, and when the step completes every rating has been
\* downloaded once and has status 'done' or 'error', 'done' exactly when
\* its download succeeded, and then downloadedRatings has an entry under
\* its name.
C37_FiveAtATimeEachOnce ==
  /\ Cardinality(InFlight) <= 5
  /\ \A i \in DOMAIN web.ratings : web.fetches[i] <= 1
  /\ web.pc = "done" =>
       \A i \in DOMAIN web.ratings :
         /\ web.fetches[i] = 1
         /\ web.ratings[i].status \in {"done", "error"}
         /\ web.ratings[i].status = "done" <=>
              (web.results[i] = "ok" /\ web.ratings[i].name \in DOMAIN web.downloadedRatings)
         /\ web.results[i] = "ok" => web.ratings[i].name \in DOMAIN web.downloadedRatings

\* more ratings than workers: the step completed after five downloads at a
\* time, some succeeded and some failed
C37_Witness ==
  /\ web.pc = "done"
  /\ Len(web.ratings) > 5
  /\ \E i, j \in DOMAIN web.ratings : web.results[i] = "ok" /\ web.results[j] = "failed"

----------------------------------------------------------------------------
(* Properties of the protected blocks *)

\* the content of the block of these markers in html, <<>> without block
BlockContent(html, start, end) ==
  IF FirstMatch(html, start, end) = NoMatch
    THEN <<>>
    ELSE SubSeq(html, FirstMatch(html, start, end).from + 1, FirstMatch(html, start, end).to - 1)

\* the block of the template, where it has content, stands in the result
Kept(start, end) ==
  BlockContent(fill.template, start, end) # <<>> =>
    Includes(fill.result, <<start>> \o BlockContent(fill.template, start, end) \o <<end>>)

\* C38: for a template with a PROTECTED:SEO block (likewise a
\* PROTECTED:COUNTERS block) of non-empty content c and for every HTML
\* the model returns, the HTML that step_fill writes contains the block
\* with content exactly c.
C38_ProtectedBlocksKept ==
  fill.pc = "restored" => Kept(SeoStart, SeoEnd) /\ Kept(CountersStart, CountersEnd)

----------------------------------------------------------------------------
(* Properties of the SSE registry *)

IsEvent(w) == w.kind = "event"

\* the calls of emitSSE made while the connection c was registered
WhileOpen(c) ==
  SubSeq(sse.log, sse.conns[c].opened + 1,
         IF sse.conns[c].closed THEN sse.conns[c].closedAt ELSE Len(sse.log))

\* C39: an event emitted for project P is written to exactly the
\* connections that subscribed to P and have not closed, and to no
\* connection of another project; a connection leaves the registry when
\* it closes; and the registry never holds an empty client set.
C39_EventsToOpenSubscribers ==
  /\ \A c \in DOMAIN sse.conns :
       SelectSeq(sse.conns[c].written, IsEvent) =
         SelectSeq(WhileOpen(c), LAMBDA e : e.projectId = sse.conns[c].projectId)
  /\ \A c \in DOMAIN sse.conns : \A p \in ProjectIds :
       (p \in DOMAIN sse.sseClients /\ c \in sse.sseClients[p]) <=>
         (sse.conns[c].projectId = p /\ ~sse.conns[c].closed)
  /\ \A p \in DOMAIN sse.sseClients : sse.sseClients[p] # {}

\* an event for p1 went to the open connection of p1 and not to the one of
\* p2; a later one found the connection closed and the set of p1 removed
C39_Witness ==
  /\ Len(sse.log) = 2
  /\ sse.log[1].projectId = "p1" /\ sse.log[2].projectId = "p1"
  /\ \E c, d \in DOMAIN sse.conns :
       /\ sse.conns[c].projectId = "p1" /\ sse.conns[c].closed
       /\ SelectSeq(sse.conns[c].written, IsEvent) = <<sse.log[1]>>
       /\ sse.conns[d].projectId = "p2" /\ ~sse.conns[d].closed
       /\ SelectSeq(sse.conns[d].written, IsEvent) = <<>>
  /\ DOMAIN sse.sseClients = {"p2"}

----------------------------------------------------------------------------
(* Properties of the second pass of selectBestMatch *)

\* the call went through the first pass without returning
SecondPass ==
  BothPasses /\ FirstPass(selectIn.results, selectIn.priorityKeywords) = 0

\* C40: whenever selectBestMatch reaches its second pass, no result gets
\* the +10 name bonus for any priority keyword, so every score is a sum of
\* +3 and +1 bonuses, at most one per keyword; and for a non-empty result
\* list the value returned is one of the elements of the list.
C40_NoNameBonusAndAnElement ==
  /\ SecondPass =>
       \A i \in DOMAIN selectIn.results :
         /\ \A p \in DOMAIN selectIn.priorityKeywords :
              /\ ~Includes(StyleName(selectIn.results[i]),
                           Trim(toLowerCase(selectIn.priorityKeywords[p])))
              /\ KeywordScore(selectIn.priorityKeywords[p], selectIn.results[i]) \in {0, 1, 3}
         /\ ResultScore(selectIn.results[i], selectIn.priorityKeywords)
              <= 3 * Len(selectIn.priorityKeywords)
  /\ (op = "select" /\ selectIn.results # <<>>) =>
       \E i \in DOMAIN selectIn.results : selectOut = selectIn.results[i]

\* the second pass returned the second result for its +3 bonus, the first
\* one having a +1 bonus only
C40_Witness ==
  /\ SecondPass
  /\ Len(selectIn.results) = 2
  /\ selectOut = selectIn.results[2] /\ selectOut # selectIn.results[1]
  /\ ResultScore(selectIn.results[1], selectIn.priorityKeywords) = 1
  /\ ResultScore(selectIn.results[2], selectIn.priorityKeywords) = 3

====
